---- MODULE Spec2Model ----
(***************************************************************************)
(* Model of the RFC 4512 LDAP schema parser: the PEG grammar               *)
(* (src/_grammars/rfc4512.pegjs, first grammar of the file) and the        *)
(* preprocessing and validation of RFC4512Parser.parseSchema               *)
(* (src/rfc4512.parser.ts).  Texts are TLA+ strings; positions are 1-based *)
(* indices of the next character to read.  A grammar rule is an operator   *)
(* of the text and a position that returns [ok, pos, val, far]: whether    *)
(* the rule matched, the position after the match, the rule's value, and   *)
(* the furthest position at which a terminal failed to match while the     *)
(* rule was tried (0 when none), which the engine reports on failure.      *)
(* A nullable value (null / undefined in the source) is a sequence of      *)
(* length 0 or 1.  Intermediate results are bound with With and Bind, so   *)
(* that each is computed once.                                             *)
(***************************************************************************)
EXTENDS Integers, Sequences, FiniteSets, TLC

(***************************************************************************)
(* Character classes                                                       *)
(***************************************************************************)
Digit == {"0", "1", "2", "3", "4", "5", "6", "7", "8", "9"}

Lower == {"a", "b", "c", "d", "e", "f", "g", "h", "i", "j", "k", "l", "m",
          "n", "o", "p", "q", "r", "s", "t", "u", "v", "w", "x", "y", "z"}

Upper == {"A", "B", "C", "D", "E", "F", "G", "H", "I", "J", "K", "L", "M",
          "N", "O", "P", "Q", "R", "S", "T", "U", "V", "W", "X", "Y", "Z"}

Letter == Lower \cup Upper

\* [0-9.] of numericOid and openldapOid
OidChar == Digit \cup {"."}

\* [a-zA-Z0-9_-] of word
WordChar == Letter \cup Digit \cup {"_", "-"}

\* [A-Z0-9-] of extensionKey
ExtKeyChar == Upper \cup Digit \cup {"-"}

\* [ \t\r\n] of the grammar's whitespace rule
GrammarWs == {" ", "\t", "\r", "\n"}

\* \s of a JavaScript regular expression and of String.prototype.trim
\* (the characters of it that the model's texts can contain)
JsWs == {" ", "\t", "\r", "\n", "\f"}

\* \w of a JavaScript regular expression
RegexWordChar == Letter \cup Digit \cup {"_"}

(***************************************************************************)
(* Text primitives                                                         *)
(***************************************************************************)
\* the character at position i, "" past the end
Ch(s, i) == IF i >= 1 /\ i <= Len(s) THEN SubSeq(s, i, i) ELSE ""

\* the literal lit stands at position i
Lit(s, i, lit) == /\ i + Len(lit) - 1 <= Len(s)
                  /\ SubSeq(s, i, i + Len(lit) - 1) = lit

\* the first position >= i whose character is not in class
SkipWhile(s, i, class) ==
  IF i > Len(s) THEN i
  ELSE CHOOSE j \in i..Len(s) + 1 :
         /\ Ch(s, j) \notin class
         /\ \A k \in i..j - 1 : Ch(s, k) \in class

\* the last position <= i whose character is not in class (0 if none)
SkipBack(s, i, class) ==
  IF i < 1 THEN i
  ELSE CHOOSE j \in 0..i :
         /\ Ch(s, j) \notin class
         /\ \A k \in j + 1..i : Ch(s, k) \in class

\* s contains sub
Contains(s, sub) == \E i \in 1..Len(s) : Lit(s, i, sub)

\* const x = v; F(x) : v is computed once
With(v, F(_)) == CHOOSE r \in {F(x) : x \in {v}} : TRUE

NoMatch == [ok |-> FALSE, pos |-> 0, val |-> <<>>, far |-> 0]

\* a terminal (literal or character class) does not match at position i:
\* the engine records i as a position of failure
Fail(i) == [ok |-> FALSE, pos |-> 0, val |-> <<>>, far |-> i]

Match(p, v) == [ok |-> TRUE, pos |-> p, val |-> v, far |-> 0]

\* a match up to position p before which a terminal did not match at f
MatchFar(p, v, f) == [ok |-> TRUE, pos |-> p, val |-> v, far |-> f]

\* the result r, the furthest position of failure being at least f
Far(r, f) == [r EXCEPT !.far = IF f > @ THEN f ELSE @]

\* a sequence of the grammar: the rest F is applied to what r matched
Bind(r, F(_)) ==
  CHOOSE v \in {IF x.ok THEN Far(F(x), x.far) ELSE x : x \in {r}} : TRUE

\* an ordered choice of the grammar, a / b : b is tried only when a failed
OrElse(a, b) == CHOOSE v \in {IF x.ok THEN x ELSE Far(b, x.far) : x \in {a}} : TRUE

\* the first of the literals lits (a sequence, tried in order) at position i
RECURSIVE FirstLit(_, _, _)
FirstLit(s, i, lits) ==
  IF lits = <<>> THEN Fail(i)
  ELSE IF Lit(s, i, Head(lits)) THEN Match(i + Len(Head(lits)), Head(lits))
  ELSE Far(FirstLit(s, i, Tail(lits)), i)

(***************************************************************************)
(* Grammar: lexical rules                                                  *)
(***************************************************************************)
\* _ "whitespace" = [ \t\r\n]* : the position after the whitespace
Ws(s, i) == SkipWhile(s, i, GrammarWs)

\* x? : the value of r as a nullable, the position unchanged when r failed
Opt(r, i) ==
  With(r, LAMBDA x : IF x.ok THEN MatchFar(x.pos, <<x.val>>, x.far)
                     ELSE MatchFar(i, <<>>, x.far))

\* class+ from position i on, as the text from position from on
Span(s, from, i, class) ==
  With(SkipWhile(s, i, class),
       LAMBDA j : IF j > i THEN MatchFar(j, SubSeq(s, from, j - 1), j)
                  ELSE Fail(i))

\* numericOid = digits:[0-9.]+
numericOid(s, i) == Span(s, i, i, OidChar)

OpenLdapPrefixes ==
  <<"OLcfgOvAt", "OLcfgDbAt", "OLcfgGlAt", "OLcfgOvOc", "OLcfgDbOc", "OLcfgGlOc">>

\* openldapOid = prefix ":" suffix:[0-9.]+
openldapOid(s, i) ==
  Bind(FirstLit(s, i, OpenLdapPrefixes),
       LAMBDA p : IF Ch(s, p.pos) = ":" THEN Span(s, i, p.pos + 1, OidChar)
                  ELSE Fail(p.pos))

\* oid = openldapOid / numericOid
oid(s, i) == OrElse(openldapOid(s, i), numericOid(s, i))

\* quotedChar = [^'\n\r]
QuotedChar(c) == c \notin {"", "'", "\n", "\r"}

\* quotedChar* : the first position >= i that is the end of the text, a
\* quote or a line break
quotedChars(s, i) ==
  IF i > Len(s) THEN i
  ELSE CHOOSE j \in i..Len(s) + 1 :
         /\ ~QuotedChar(Ch(s, j))
         /\ \A k \in i..j - 1 : QuotedChar(Ch(s, k))

\* quotedString = "'" chars:quotedChar* "'"
quotedString(s, i) ==
  IF Ch(s, i) = "'"
  THEN With(quotedChars(s, i + 1),
            LAMBDA j : IF Ch(s, j) = "'" THEN Match(j + 1, SubSeq(s, i + 1, j - 1))
                       ELSE Fail(j))
  ELSE Fail(i)

\* (_ quotedString)* : the strings appended to acc
RECURSIVE quotedStringsTail(_, _, _)
quotedStringsTail(s, i, acc) ==
  With(quotedString(s, Ws(s, i)),
       LAMBDA q : IF q.ok
                  THEN Far(quotedStringsTail(s, q.pos, Append(acc, q.val)), q.far)
                  ELSE MatchFar(i, acc, q.far))

\* multiQuotedStrings = "(" _ head:quotedString tail:(_ quotedString)* _ ")"
multiQuotedStrings(s, i) ==
  IF Ch(s, i) = "("
  THEN Bind(quotedString(s, Ws(s, i + 1)), LAMBDA h :
       Bind(quotedStringsTail(s, h.pos, <<h.val>>), LAMBDA t :
       With(Ws(s, t.pos), LAMBDA e :
       IF Ch(s, e) = ")" THEN Match(e + 1, t.val) ELSE Fail(e))))
  ELSE Fail(i)

\* word = chars:[a-zA-Z0-9_-]+
word(s, i) == Span(s, i, i, WordChar)

\* (_ "$" _ word)* : the words appended to acc
RECURSIVE wordListTail(_, _, _)
wordListTail(s, i, acc) ==
  With(Ws(s, i), LAMBDA d :
  IF Ch(s, d) = "$"
  THEN With(word(s, Ws(s, d + 1)),
            LAMBDA w : IF w.ok
                       THEN Far(wordListTail(s, w.pos, Append(acc, w.val)), w.far)
                       ELSE MatchFar(i, acc, w.far))
  ELSE MatchFar(i, acc, d))

\* wordList = head:word tail:(_ "$" _ word)*
wordList(s, i) ==
  Bind(word(s, i), LAMBDA h : wordListTail(s, h.pos, <<h.val>>))

\* "(" _ items:wordList _ ")"
parenWordList(s, i) ==
  IF Ch(s, i) = "("
  THEN Bind(wordList(s, Ws(s, i + 1)), LAMBDA l :
       With(Ws(s, l.pos), LAMBDA e :
       IF Ch(s, e) = ")" THEN Match(e + 1, l.val) ELSE Fail(e)))
  ELSE Fail(i)

\* attrList = "(" _ items:wordList _ ")" / wordList
attrList(s, i) == OrElse(parenWordList(s, i), wordList(s, i))

\* supValue = "(" _ items:wordList _ ")" { return items; }
\*          / word:word { return [word]; }
\* Both alternatives yield an array; the value keeps that, since parseSchema
\* asks for the value's typeof.
supValue(s, i) ==
  OrElse(Bind(parenWordList(s, i),
              LAMBDA p : Match(p.pos, [isArray |-> TRUE, items |-> p.val])),
         Bind(word(s, i),
              LAMBDA w : Match(w.pos, [isArray |-> TRUE, items |-> <<w.val>>])))

\* _ KEYWORD : the position after the keyword, when it is there
Keyword(s, i, kw) ==
  With(Ws(s, i), LAMBDA k : IF Lit(s, k, kw) THEN Match(k + Len(kw), kw)
                            ELSE Fail(k))

\* _ KEYWORD _ val:word  (attributeSup, equality, ordering, substr)
keywordWord(s, i, kw) ==
  Bind(Keyword(s, i, kw), LAMBDA k : word(s, Ws(s, k.pos)))

\* _ KEYWORD { return true; }  (singleValue, collective, noUserModification)
flag(s, i, kw) ==
  Bind(Keyword(s, i, kw), LAMBDA k : Match(k.pos, TRUE))

(***************************************************************************)
(* Grammar: fields                                                         *)
(***************************************************************************)
\* a variant of name that returns the last string of a list
Mutant_name(s, i) ==
  Bind(Keyword(s, i, "NAME"), LAMBDA k :
  With(Ws(s, k.pos), LAMBDA v :
  OrElse(quotedString(s, v),
         Bind(multiQuotedStrings(s, v),
              LAMBDA m : Match(m.pos, m.val[Len(m.val)])))))

\* name = _ "NAME" _ val:(quotedString / multiQuotedStrings)
\*        { return Array.isArray(val) ? val[0] : val; }
name(s, i) ==
  Bind(Keyword(s, i, "NAME"), LAMBDA k :
  With(Ws(s, k.pos), LAMBDA v :
  OrElse(quotedString(s, v),
         Bind(multiQuotedStrings(s, v), LAMBDA m : Match(m.pos, m.val[1])))))

\* desc = _ "DESC" _ str:quotedString
desc(s, i) ==
  Bind(Keyword(s, i, "DESC"), LAMBDA k : quotedString(s, Ws(s, k.pos)))

\* an element of an object class, tagged as the grammar's actions tag it
Tagged(r, tag) ==
  Bind(r, LAMBDA x : Match(x.pos, [type |-> tag, value |-> x.val]))

\* objectClassDesc = _ "DESC" _ str:quotedString
objectClassDesc(s, i) == Tagged(desc(s, i), "desc")

\* sup = _ "SUP" _ val:supValue
sup(s, i) ==
  Tagged(Bind(Keyword(s, i, "SUP"), LAMBDA k : supValue(s, Ws(s, k.pos))), "sup")

\* a variant of attributeSup that reads a description after the name
Mutant_attributeSup(s, i) ==
  Bind(keywordWord(s, i, "SUP"), LAMBDA w :
  Bind(Opt(desc(s, w.pos), w.pos), LAMBDA d : Match(d.pos, w.val)))

\* attributeSup = _ "SUP" _ val:word
attributeSup(s, i) == keywordWord(s, i, "SUP")

\* kind = _ val:("STRUCTURAL" / "AUXILIARY" / "ABSTRACT")
kind(s, i) ==
  Tagged(FirstLit(s, Ws(s, i), <<"STRUCTURAL", "AUXILIARY", "ABSTRACT">>), "kind")

\* must = _ "MUST" _ val:attrList
must(s, i) ==
  Tagged(Bind(Keyword(s, i, "MUST"), LAMBDA k : attrList(s, Ws(s, k.pos))), "must")

\* may = _ "MAY" _ val:attrList
may(s, i) ==
  Tagged(Bind(Keyword(s, i, "MAY"), LAMBDA k : attrList(s, Ws(s, k.pos))), "may")

\* equality = _ "EQUALITY" _ val:word
equality(s, i) == keywordWord(s, i, "EQUALITY")

\* ordering = _ "ORDERING" _ val:word
ordering(s, i) == keywordWord(s, i, "ORDERING")

\* substr = _ "SUBSTR" _ val:word
substr(s, i) == keywordWord(s, i, "SUBSTR")

\* openldapSyntaxName = "OMsDirectoryString" / "OMsInteger" / "OMsOctetString"
\*                    / "OMsBoolean" / [a-zA-Z][a-zA-Z0-9_-]*
\* A literal yields a string.  The last alternative is a sequence with no
\* action: it yields the array [first, [rest...]], here str = FALSE with the
\* matched characters as text.
openldapSyntaxName(s, i) ==
  OrElse(Bind(FirstLit(s, i, <<"OMsDirectoryString", "OMsInteger",
                               "OMsOctetString", "OMsBoolean">>),
              LAMBDA l : Match(l.pos, [str |-> TRUE, text |-> l.val])),
         IF Ch(s, i) \in Letter
         THEN With(SkipWhile(s, i + 1, WordChar),
                   LAMBDA j : MatchFar(j, [str |-> FALSE, text |-> SubSeq(s, i, j - 1)], j))
         ELSE Fail(i))

DigitValue(c) ==
  CASE c = "0" -> 0 [] c = "1" -> 1 [] c = "2" -> 2 [] c = "3" -> 3
    [] c = "4" -> 4 [] c = "5" -> 5 [] c = "6" -> 6 [] c = "7" -> 7
    [] c = "8" -> 8 [] c = "9" -> 9

\* parseInt of the decimal digits of s from position i to position j
RECURSIVE ParseInt(_, _, _, _)
ParseInt(s, i, j, acc) ==
  IF i > j THEN acc
  ELSE ParseInt(s, i + 1, j, 10 * acc + DigitValue(Ch(s, i)))

\* length:("{" [0-9]+ "}")? after the syntax oid v
syntaxLength(s, v) ==
  With(SkipWhile(s, v.pos + 1, Digit), LAMBDA j :
  IF Ch(s, v.pos) # "{" THEN MatchFar(v.pos, [oid |-> v.val, length |-> <<>>], v.pos)
  ELSE IF j > v.pos + 1 /\ Ch(s, j) = "}"
  THEN MatchFar(j + 1, [oid |-> v.val, length |-> <<ParseInt(s, v.pos + 1, j - 1, 0)>>], j)
  ELSE MatchFar(v.pos, [oid |-> v.val, length |-> <<>>], j))

\* syntaxValue = oid:(oid / openldapSyntaxName) length:("{" [0-9]+ "}")?
syntaxValue(s, i) ==
  Bind(OrElse(Bind(oid(s, i),
                   LAMBDA o : Match(o.pos, [str |-> TRUE, text |-> o.val])),
              openldapSyntaxName(s, i)),
       LAMBDA v : syntaxLength(s, v))

\* syntax = _ "SYNTAX" _ val:syntaxValue
syntax(s, i) ==
  Bind(Keyword(s, i, "SYNTAX"), LAMBDA k : syntaxValue(s, Ws(s, k.pos)))

\* singleValue = _ "SINGLE-VALUE" { return true; }
singleValue(s, i) == flag(s, i, "SINGLE-VALUE")

\* collective = _ "COLLECTIVE" { return true; }
collective(s, i) == flag(s, i, "COLLECTIVE")

\* noUserModification = _ "NO-USER-MODIFICATION" { return true; }
noUserModification(s, i) == flag(s, i, "NO-USER-MODIFICATION")

\* usage = _ "USAGE" _ val:("userApplications" / "directoryOperation"
\*                          / "distributedOperation" / "dSAOperation")
usage(s, i) ==
  Bind(Keyword(s, i, "USAGE"), LAMBDA k :
  FirstLit(s, Ws(s, k.pos), <<"userApplications", "directoryOperation",
                              "distributedOperation", "dSAOperation">>))

\* extensionKey = "X-" chars:[A-Z0-9-]+
extensionKey(s, i) ==
  IF Lit(s, i, "X-") THEN Span(s, i, i + 2, ExtKeyChar) ELSE Fail(i)

\* extensionValue = quotedString / word
extensionValue(s, i) == OrElse(quotedString(s, i), word(s, i))

\* extension = _ key:extensionKey _ value:extensionValue
extension(s, i) ==
  Bind(extensionKey(s, Ws(s, i)), LAMBDA k :
  Bind(extensionValue(s, Ws(s, k.pos)), LAMBDA v :
  Match(v.pos, <<k.val, v.val>>)))

\* extension* : the pairs appended to acc
RECURSIVE extensions(_, _, _)
extensions(s, i, acc) ==
  With(extension(s, i),
       LAMBDA e : IF e.ok
                  THEN Far(extensions(s, e.pos, Append(acc, e.val)), e.far)
                  ELSE MatchFar(i, acc, e.far))

\* extensions.length > 0 ? Object.fromEntries(extensions) : undefined
\* (of two pairs with the same key the later one stays)
ExtensionsObj(pairs) ==
  IF pairs = <<>> THEN <<>>
  ELSE << [k \in {pairs[n][1] : n \in 1..Len(pairs)} |->
            LET last == CHOOSE n \in 1..Len(pairs) :
                          /\ pairs[n][1] = k
                          /\ \A m \in n + 1..Len(pairs) : pairs[m][1] # k
            IN pairs[last][2]] >>

(***************************************************************************)
(* Grammar: the three definitions and the entry point                      *)
(***************************************************************************)
\* objectClassElement = element:(objectClassDesc / sup / kind / must / may)
objectClassElement(s, i) ==
  OrElse(objectClassDesc(s, i),
  OrElse(sup(s, i),
  OrElse(kind(s, i),
  OrElse(must(s, i), may(s, i)))))

\* a variant of the fold by position: a description after SUP is dropped
Mutant_FoldElement(rec, element) ==
  CASE element.type = "desc" ->
         IF rec.sup = <<>> THEN [rec EXCEPT !.desc = <<element.value>>] ELSE rec
    [] element.type = "sup"  -> [rec EXCEPT !.sup = <<element.value>>]
    [] element.type = "kind" -> [rec EXCEPT !.objectClassType = <<element.value>>]
    [] element.type = "must" -> [rec EXCEPT !.must = <<element.value>>]
    [] element.type = "may"  -> [rec EXCEPT !.may = <<element.value>>]

\* elements.forEach(element => ...) : an element overwrites the field of its
\* tag, so of two elements with the same tag the later one stays
FoldElement(rec, element) ==
  CASE element.type = "desc" -> [rec EXCEPT !.desc = <<element.value>>]
    [] element.type = "sup"  -> [rec EXCEPT !.sup = <<element.value>>]
    [] element.type = "kind" -> [rec EXCEPT !.objectClassType = <<element.value>>]
    [] element.type = "must" -> [rec EXCEPT !.must = <<element.value>>]
    [] element.type = "may"  -> [rec EXCEPT !.may = <<element.value>>]

\* elements:objectClassElement* folded into rec
RECURSIVE objectClassElements(_, _, _)
objectClassElements(s, i, rec) ==
  With(objectClassElement(s, i),
       LAMBDA e : IF e.ok
                  THEN With(FoldElement(rec, e.val),
                            LAMBDA r : Far(objectClassElements(s, e.pos, r), e.far))
                  ELSE MatchFar(i, rec, e.far))

\* _ "(" _ oid:oid : how the three definitions begin
opening(s, i) ==
  With(Ws(s, i), LAMBDA p :
  IF Ch(s, p) = "(" THEN oid(s, Ws(s, p + 1)) ELSE Fail(p))

\* _ "(" _ oid:oid _ name:name : the part common to object classes and
\* attribute types
oidAndName(s, i) ==
  Bind(opening(s, i), LAMBDA o :
  Bind(name(s, o.pos), LAMBDA n :
  Match(n.pos, [oid |-> o.val, name |-> n.val])))

\* _ ")" _
closing(s, i) ==
  With(Ws(s, i), LAMBDA p :
  IF Ch(s, p) = ")" THEN Match(Ws(s, p + 1), TRUE) ELSE Fail(p))

\* objectClassDefinition = _ "(" _ oid:oid _ name:name _
\*    elements:objectClassElement* _ extensions:extension* _ ")" _
objectClassDefinition(s, i) ==
  Bind(oidAndName(s, i), LAMBDA h :
  Bind(objectClassElements(s, h.pos,
         [type |-> "objectClass", oid |-> h.val.oid, name |-> h.val.name,
          desc |-> <<>>, sup |-> <<>>, objectClassType |-> <<>>,
          must |-> <<>>, may |-> <<>>, extensions |-> <<>>]), LAMBDA e :
  Bind(extensions(s, e.pos, <<>>), LAMBDA x :
  Bind(closing(s, x.pos), LAMBDA c :
  Match(c.pos, [e.val EXCEPT !.extensions = ExtensionsObj(x.val)])))))

\* attributeTypeDefinition = _ "(" _ oid:oid _ name:name _ desc:desc? _
\*    sup:attributeSup? _ equality:equality? _ ordering:ordering? _
\*    substr:substr? _ syntax:syntax? _ singleValue:singleValue? _
\*    collective:collective? _ noUserModification:noUserModification? _
\*    usage:usage? _ extensions:extension* _ ")" _
attributeTypeDefinition(s, i) ==
  Bind(oidAndName(s, i), LAMBDA h :
  Bind(Opt(desc(s, h.pos), h.pos), LAMBDA d :
  Bind(Opt(attributeSup(s, d.pos), d.pos), LAMBDA p :
  Bind(Opt(equality(s, p.pos), p.pos), LAMBDA eq :
  Bind(Opt(ordering(s, eq.pos), eq.pos), LAMBDA od :
  Bind(Opt(substr(s, od.pos), od.pos), LAMBDA sb :
  Bind(Opt(syntax(s, sb.pos), sb.pos), LAMBDA sy :
  Bind(Opt(singleValue(s, sy.pos), sy.pos), LAMBDA sv :
  Bind(Opt(collective(s, sv.pos), sv.pos), LAMBDA co :
  Bind(Opt(noUserModification(s, co.pos), co.pos), LAMBDA nu :
  Bind(Opt(usage(s, nu.pos), nu.pos), LAMBDA us :
  Bind(extensions(s, us.pos, <<>>), LAMBDA x :
  Bind(closing(s, x.pos), LAMBDA c :
  Match(c.pos,
        [type |-> "attributeType", oid |-> h.val.oid, name |-> h.val.name,
         desc |-> d.val, sup |-> p.val, equality |-> eq.val,
         ordering |-> od.val, substr |-> sb.val, syntax |-> sy.val,
         singleValue |-> sv.val # <<>>, collective |-> co.val,
         noUserModification |-> nu.val, usage |-> us.val,
         extensions |-> ExtensionsObj(x.val)]))))))))))))))

\* ldapSyntaxDefinition = _ "(" _ oid:oid _ desc:desc? _ extensions:extension* _ ")" _
ldapSyntaxDefinition(s, i) ==
  Bind(opening(s, i), LAMBDA o :
  Bind(Opt(desc(s, o.pos), o.pos), LAMBDA d :
  Bind(extensions(s, d.pos, <<>>), LAMBDA x :
  Bind(closing(s, x.pos), LAMBDA c :
  Match(c.pos, [type |-> "ldapSyntax", oid |-> o.val, desc |-> d.val,
                extensions |-> ExtensionsObj(x.val)])))))

\* a variant of start that tries objectClassDefinition first
Mutant_start(s, i) ==
  OrElse(objectClassDefinition(s, i),
  OrElse(attributeTypeDefinition(s, i), ldapSyntaxDefinition(s, i)))

\* start = attributeTypeDefinition / objectClassDefinition / ldapSyntaxDefinition
start(s, i) ==
  OrElse(attributeTypeDefinition(s, i),
  OrElse(objectClassDefinition(s, i), ldapSyntaxDefinition(s, i)))

\* peg$maxFailPos when the parse is given up: the furthest position at which
\* a terminal did not match, the first position when none was recorded
maxFailPos(r) == IF r.far > 1 THEN r.far ELSE 1

\* this._parser.parse(cleanInput): the first alternative of start that
\* matches must have read the whole text, or the parse is a syntax error
GrammarParse(s) ==
  With(start(s, 1),
       LAMBDA r : IF r.ok /\ r.pos = Len(s) + 1
                  THEN [ok |-> TRUE, val |-> r.val, far |-> 0]
                  ELSE [ok |-> FALSE, val |-> <<>>,
                        far |-> maxFailPos(IF r.ok THEN Far(r, r.pos) ELSE r)])

(***************************************************************************)
(* Regular expressions and string functions of rfc4512.parser.ts           *)
(***************************************************************************)
\* \b at position i: exactly one of the characters before and at i is a \w
WordBoundary(s, i) ==
  (Ch(s, i - 1) \in RegexWordChar) # (Ch(s, i) \in RegexWordChar)

\* String.prototype.trim
Trim(s) ==
  With(SkipWhile(s, 1, JsWs), LAMBDA a :
  With(SkipBack(s, Len(s), JsWs), LAMBDA b :
  IF a > b THEN "" ELSE SubSeq(s, a, b)))

\* a variant of openLdapPrefixPattern for one digit only, as /^\s*\{\d\}\s*/
\* would match
Mutant_openLdapPrefixPattern(s) ==
  With(SkipWhile(s, 1, JsWs), LAMBDA a :
  IF Ch(s, a) = "{" /\ Ch(s, a + 1) \in Digit /\ Ch(s, a + 2) = "}"
  THEN SkipWhile(s, a + 3, JsWs) ELSE 0)

\* /^\s*\{\d+\}\s*/ : the position after the match, 0 when there is none
openLdapPrefixPattern(s) ==
  With(SkipWhile(s, 1, JsWs), LAMBDA a :
  With(SkipWhile(s, a + 1, Digit), LAMBDA d :
  IF Ch(s, a) = "{" /\ d > a + 1 /\ Ch(s, d) = "}"
  THEN SkipWhile(s, d + 1, JsWs) ELSE 0))

\* a variant of removeOpenLDAPPrefix that removes a second marker after the
\* first
Mutant_removeOpenLDAPPrefix(schemaDefinition) ==
  With(openLdapPrefixPattern(schemaDefinition), LAMBDA e :
  With(IF e > 0 THEN SubSeq(schemaDefinition, e, Len(schemaDefinition))
       ELSE schemaDefinition, LAMBDA rest :
  With(openLdapPrefixPattern(rest), LAMBDA f :
  Trim(IF f > 0 THEN SubSeq(rest, f, Len(rest)) ELSE rest))))

\* removeOpenLDAPPrefix: schemaDefinition.replace(openLdapPrefixPattern, '').trim()
removeOpenLDAPPrefix(schemaDefinition) ==
  With(openLdapPrefixPattern(schemaDefinition), LAMBDA e :
  Trim(IF e > 0 THEN SubSeq(schemaDefinition, e, Len(schemaDefinition))
       ELSE schemaDefinition))

\* a variant of RegexOidPrefixes without the object class prefixes, as
\* OLcfg(?:Ov|Db|Gl)At would give them
Mutant_RegexOidPrefixes == <<"OLcfgOvAt", "OLcfgDbAt", "OLcfgGlAt">>

\* OLcfg(?:Ov|Db|Gl)(?:At|Oc)
RegexOidPrefixes ==
  <<"OLcfgOvAt", "OLcfgOvOc", "OLcfgDbAt", "OLcfgDbOc", "OLcfgGlAt", "OLcfgGlOc">>

\* the last position e in lo..hi with a \b after it, 0 when there is none
\* ([\d.]+ is greedy and gives characters back until \b matches)
RECURSIVE LastBoundary(_, _, _)
LastBoundary(s, lo, hi) ==
  IF hi < lo THEN 0
  ELSE IF WordBoundary(s, hi + 1) THEN hi
  ELSE LastBoundary(s, lo, hi - 1)

\* /\b(OLcfg(?:Ov|Db|Gl)(?:At|Oc)):([\d.]+)\b/ matched at position i: the
\* position of the last character of the match, 0 when there is none
openldapOidMatchEnd(s, i) ==
  IF WordBoundary(s, i)
  THEN With(FirstLit(s, i, RegexOidPrefixes), LAMBDA p :
       IF p.ok /\ Ch(s, p.pos) = ":"
       THEN LastBoundary(s, p.pos + 1, SkipWhile(s, p.pos + 1, OidChar) - 1)
       ELSE 0)
  ELSE 0

\* openldapOidPattern.test(cleanInput) of the strict-mode check
openldapOidPatternTest(s) ==
  \E i \in 1..Len(s) : openldapOidMatchEnd(s, i) > 0

\* the callback of the replace: (match, prefix, suffix) => match
replacement(match) == match

\* schemaDefinition.replace(openldapOidPattern, (match, prefix, suffix) => match)
\* from position i on: every match, sought from the left, is replaced by
\* what the callback returns, and the search goes on after the match
RECURSIVE replaceOpenLDAPOids(_, _)
replaceOpenLDAPOids(s, i) ==
  IF \E j \in i..Len(s) : openldapOidMatchEnd(s, j) > 0
  THEN With(CHOOSE j \in i..Len(s) :
              /\ openldapOidMatchEnd(s, j) > 0
              /\ \A k \in i..j - 1 : openldapOidMatchEnd(s, k) = 0, LAMBDA j :
       With(openldapOidMatchEnd(s, j), LAMBDA e :
       SubSeq(s, i, j - 1) \o replacement(SubSeq(s, j, e))
         \o replaceOpenLDAPOids(s, e + 1)))
  ELSE SubSeq(s, i, Len(s))

\* transformOpenLDAPOids
transformOpenLDAPOids(schemaDefinition, options) ==
  IF ~options.relaxedMode THEN schemaDefinition
  ELSE replaceOpenLDAPOids(schemaDefinition, 1)

\* [0-9]+(\.[0-9]+)* is all of s from position i on
dottedDecimal(s, i) ==
  /\ Len(s) >= i
  /\ \A n \in i..Len(s) : Ch(s, n) \in OidChar
  /\ Ch(s, i) # "." /\ Ch(s, Len(s)) # "."
  /\ \A n \in i..Len(s) - 1 : ~(Ch(s, n) = "." /\ Ch(s, n + 1) = ".")

\* /^[0-9]+(\.[0-9]+)*$/
oidPattern(s) == dottedDecimal(s, 1)

\* /^OLcfg(?:Ov|Db|Gl)(?:At|Oc):[0-9]+(\.[0-9]+)*$/
openldapOidPattern(s) ==
  \E p \in {FirstLit(s, 1, RegexOidPrefixes)} :
     p.ok /\ Ch(s, p.pos) = ":" /\ dottedDecimal(s, p.pos + 1)

\* /^[a-zA-Z][a-zA-Z0-9_-]*$/  (supPattern, attributeNamePattern)
attributeNamePattern(s) ==
  /\ Ch(s, 1) \in Letter
  /\ \A i \in 2..Len(s) : Ch(s, i) \in WordChar

LowerLetters == "abcdefghijklmnopqrstuvwxyz"

UpperLetters == "ABCDEFGHIJKLMNOPQRSTUVWXYZ"

\* the upper case of one character
upperChar(c) ==
  IF c \in Lower
  THEN With(CHOOSE n \in 1..26 : SubSeq(LowerLetters, n, n) = c,
            LAMBDA n : SubSeq(UpperLetters, n, n))
  ELSE c

\* String.prototype.toUpperCase, of s from position i on
RECURSIVE toUpperCaseFrom(_, _)
toUpperCaseFrom(s, i) ==
  IF i > Len(s) THEN ""
  ELSE upperChar(Ch(s, i)) \o toUpperCaseFrom(s, i + 1)

toUpperCase(s) == toUpperCaseFrom(s, 1)

\* Array.prototype.join(sep), of items from index i on
RECURSIVE joinFrom(_, _, _)
joinFrom(items, sep, i) ==
  IF i > Len(items) THEN ""
  ELSE IF i = Len(items) THEN items[i]
  ELSE items[i] \o sep \o joinFrom(items, sep, i + 1)

join(items, sep) == joinFrom(items, sep, 1)

\* the characters of a text, one by one
Chars(s) == [i \in 1..Len(s) |-> SubSeq(s, i, i)]

\* String(v) of a syntax oid as RegExp.prototype.test coerces it: a string
\* is itself, the array [first, [rest...]] is joined with commas
SyntaxOidToString(v) ==
  IF v.str THEN v.text
  ELSE SubSeq(v.text, 1, 1) \o "," \o join(Chars(SubSeq(v.text, 2, Len(v.text))), ",")

\* the items of the indices in keep, in the order of the indices
atIndices(items, keep) ==
  [n \in 1..Cardinality(keep) |->
     items[CHOOSE i \in keep : Cardinality({j \in keep : j < i}) = n - 1]]

\* [...new Set(items)] : the items without repetition, in the order of
\* their first occurrence
uniq(items) ==
  With({i \in 1..Len(items) : \A j \in 1..i - 1 : items[j] # items[i]},
       LAMBDA keep : atIndices(items, keep))

\* Array.prototype.filter(attr => maySet.has(attr))
filterIn(items, other) ==
  With({i \in 1..Len(items) : \E n \in 1..Len(other) : other[n] = items[i]},
       LAMBDA keep : atIndices(items, keep))

(***************************************************************************)
(* RFC4512Parser.parseSchema                                               *)
(***************************************************************************)
\* a variant of Throw that gives every error a position
Mutant_Throw(message, type, schemaDefinition, invoked) ==
  [ok |-> FALSE, type |-> type, message |-> message,
   schemaDefinition |-> schemaDefinition, grammarInvoked |-> invoked,
   data |-> <<>>, position |-> <<[line |-> 1, column |-> 1, offset |-> 0]>>,
   context |-> <<>>, cause |-> <<>>]

\* new RFC4512ParserError(message, type, schemaDefinition): what parseSchema
\* throws; grammarInvoked tells whether this._parser.parse had been called.
\* position, context and cause are the optional fields of the error, not
\* given here.
Throw(message, type, schemaDefinition, invoked) ==
  [ok |-> FALSE, type |-> type, message |-> message,
   schemaDefinition |-> schemaDefinition, grammarInvoked |-> invoked,
   data |-> <<>>, position |-> <<>>, context |-> <<>>, cause |-> <<>>]

\* new RFC4512ParserError(message, type, schemaDefinition, { context }): what
\* the checks made after the grammar throw
ThrowInContext(message, type, schemaDefinition, context) ==
  [Throw(message, type, schemaDefinition, TRUE) EXCEPT !.context = <<context>>]

\* the text of a boolean in a template literal
booleanText(b) == IF b THEN "true" ELSE "false"

\* return parsed
Return(parsed) ==
  [ok |-> TRUE, type |-> "", message |-> "", schemaDefinition |-> "",
   grammarInvoked |-> TRUE, data |-> <<parsed>>, position |-> <<>>,
   context |-> <<>>, cause |-> <<>>]

\* the decimal text of a number >= 0 in a template literal
RECURSIVE numberText(_)
numberText(n) ==
  IF n < 10 THEN Ch("0123456789", n + 1)
  ELSE numberText(n \div 10) \o Ch("0123456789", (n % 10) + 1)

\* a variant of getDetailedMessage whose preview is cut without the dots
Mutant_getDetailedMessage(error) ==
  error.type \o ": " \o error.message
  \o (IF error.position # <<>>
      THEN " at line " \o numberText(error.position[1].line)
           \o ", column " \o numberText(error.position[1].column)
      ELSE "")
  \o (IF error.context # <<>> /\ error.context[1] # ""
      THEN "\nContext: " \o error.context[1] ELSE "")
  \o (IF error.schemaDefinition # ""
      THEN "\nSchema: "
           \o (IF Len(error.schemaDefinition) > 100
               THEN SubSeq(error.schemaDefinition, 1, 100)
               ELSE error.schemaDefinition)
      ELSE "")
  \o (IF error.cause # <<>>
      THEN "\nCaused by: " \o error.cause[1].message ELSE "")

\* error.getDetailedMessage(): kind and message, the position if (position),
\* the context if (context), the preview if (schemaDefinition), the cause if
\* (cause); an empty text is falsy
getDetailedMessage(error) ==
  error.type \o ": " \o error.message
  \o (IF error.position # <<>>
      THEN " at line " \o numberText(error.position[1].line)
           \o ", column " \o numberText(error.position[1].column)
      ELSE "")
  \o (IF error.context # <<>> /\ error.context[1] # ""
      THEN "\nContext: " \o error.context[1] ELSE "")
  \o (IF error.schemaDefinition # ""
      THEN "\nSchema: "
           \o (IF Len(error.schemaDefinition) > 100
               THEN SubSeq(error.schemaDefinition, 1, 100) \o "..."
               ELSE error.schemaDefinition)
      ELSE "")
  \o (IF error.cause # <<>>
      THEN "\nCaused by: " \o error.cause[1].message ELSE "")

\* the kinds of RFC4512ErrorType
RFC4512ErrorType ==
  {"SYNTAX_ERROR", "GRAMMAR_ERROR", "MISSING_FIELD", "INVALID_FIELD",
   "INVALID_OID", "INVALID_NAME", "VALIDATION_ERROR", "EMPTY_INPUT",
   "OBJECTCLASS_ERROR", "ATTRIBUTETYPE_ERROR", "GRAMMAR_LOAD_ERROR",
   "UNKNOWN_ERROR"}

\* a variant of computeLocation that counts the lines from 0
Mutant_computeLocation(input, p) ==
  With({k \in 1..p - 1 : Ch(input, k) = "\n"}, LAMBDA breaks :
  [line |-> Cardinality(breaks),
   column |-> p - (IF breaks = {} THEN 0
                   ELSE CHOOSE k \in breaks : \A m \in breaks : m <= k),
   offset |-> p - 1])

\* the location of position p of the text (peg$computeLocation): the offset
\* counts from 0, the line and the column from 1, a line ending with "\n"
computeLocation(input, p) ==
  With({k \in 1..p - 1 : Ch(input, k) = "\n"}, LAMBDA breaks :
  [line |-> 1 + Cardinality(breaks),
   column |-> p - (IF breaks = {} THEN 0
                   ELSE CHOOSE k \in breaks : \A m \in breaks : m <= k),
   offset |-> p - 1])

\* the error the generated parser throws when the text does not match: an
\* Error that is not an RFC4512ParserError, with the engine's message and
\* the location of the furthest position at which a terminal did not match
\* (the text of the engine's message is not computed here)
pegSyntaxError(input, failPos) ==
  [ok |-> FALSE, name |-> "SyntaxError", message |-> "Syntax error",
   location |-> <<[start |-> computeLocation(input, failPos)]>>]

\* a variant of fromError that drops the cause
Mutant_fromError(error, errorType, schemaDefinition, position) ==
  [Throw(error.message, errorType, schemaDefinition, TRUE)
     EXCEPT !.position = position]

\* RFC4512ParserError.fromError(error, errorType, schemaDefinition, { position })
fromError(error, errorType, schemaDefinition, position) ==
  [Throw(error.message, errorType, schemaDefinition, TRUE)
     EXCEPT !.position = position, !.cause = <<error>>]

\* a variant of catchBlock that wraps the engine's error with the trimmed
\* text
Mutant_catchBlock(outcome, schemaDefinition) ==
  IF outcome.ok \/ "type" \in DOMAIN outcome THEN outcome
  ELSE IF "location" \in DOMAIN outcome /\ outcome.location # <<>>
  THEN fromError(outcome, "SYNTAX_ERROR", Trim(schemaDefinition),
                 <<outcome.location[1].start>>)
  ELSE fromError(outcome, "UNKNOWN_ERROR", Trim(schemaDefinition), <<>>)

\* the catch block of parseSchema, given what the try block returned or
\* threw: an RFC4512ParserError is thrown again as it is, any other error
\* is wrapped, as SYNTAX_ERROR with its position when it has a location and
\* as UNKNOWN_ERROR when it has none
catchBlock(outcome, schemaDefinition) ==
  IF outcome.ok \/ "type" \in DOMAIN outcome THEN outcome
  ELSE IF "location" \in DOMAIN outcome /\ outcome.location # <<>>
  THEN fromError(outcome, "SYNTAX_ERROR", schemaDefinition,
                 <<outcome.location[1].start>>)
  ELSE fromError(outcome, "UNKNOWN_ERROR", schemaDefinition, <<>>)

\* the value of `continue validating`: no error was thrown
NoError == [ok |-> TRUE]

\* one check and then the rest: the rest is made only when the check threw
\* nothing
Then(check, rest) == CHOOSE v \in {IF x.ok THEN rest ELSE x : x \in {check}} : TRUE

ObjectClassTypes == {"STRUCTURAL", "AUXILIARY", "ABSTRACT"}

\* a variant of isValidOid that in relaxed mode takes the vendor form only
Mutant_isValidOid(o, options) ==
  IF options.relaxedMode THEN openldapOidPattern(o) ELSE oidPattern(o)

\* const isValidOid = this._options.relaxedMode
\*   ? (oidPattern.test(oid) || openldapOidPattern.test(oid)) : oidPattern.test(oid)
isValidOid(o, options) ==
  IF options.relaxedMode THEN oidPattern(o) \/ openldapOidPattern(o)
  ELSE oidPattern(o)

validFormats(options, example) ==
  IF options.relaxedMode
  THEN "dotted decimal notation (e.g., " \o example
         \o ") or OpenLDAP configuration format (e.g., OLcfgOvAt:18.1)"
  ELSE "dotted decimal notation (e.g., " \o example \o ")"

\* a variant of oidCheck that never throws
Mutant_oidCheck(o, example, schemaDefinition, options) == NoError

\* if (!isValidOid) throw ... INVALID_OID
oidCheck(o, example, schemaDefinition, options) ==
  IF ~isValidOid(o, options)
  THEN ThrowInContext("Invalid OID format: " \o o \o ". Must follow "
               \o validFormats(options, example),
             "INVALID_OID", schemaDefinition,
             "RFC 4512 - OID validation (relaxedMode: "
               \o booleanText(options.relaxedMode) \o ")")
  ELSE NoError

\* a variant of hasValidType that lets a missing type pass
Mutant_hasValidType(objectClass) ==
  \/ objectClass.objectClassType = <<>>
  \/ objectClass.objectClassType[1] \in ObjectClassTypes

\* const hasValidType = objectClassType === 'STRUCTURAL' || ... 'AUXILIARY' || ... 'ABSTRACT'
hasValidType(objectClass) ==
  /\ objectClass.objectClassType # <<>>
  /\ objectClass.objectClassType[1] \in ObjectClassTypes

\* if (!hasValidType) throw ... OBJECTCLASS_ERROR
typeCheck(objectClass, schemaDefinition) ==
  IF ~hasValidType(objectClass)
  THEN ThrowInContext("ObjectClass must specify exactly one type: STRUCTURAL, AUXILIARY, or ABSTRACT",
             "OBJECTCLASS_ERROR", schemaDefinition,
             "RFC 4512 Section 4.1.1 - ObjectClass type validation")
  ELSE NoError

ObjectClassReservedKeywords ==
  {"STRUCTURAL", "AUXILIARY", "ABSTRACT", "MUST", "MAY", "DESC", "NAME", "OBSOLETE"}

\* objectClass.sup && typeof objectClass.sup === 'string'
objectClassSupIsString(objectClass) ==
  objectClass.sup # <<>> /\ ~objectClass.sup[1].isArray

\* the two throws of the SUP checks, for the text of a SUP
supTextCheck(supText, schemaDefinition) ==
  IF toUpperCase(supText) \in ObjectClassReservedKeywords
  THEN ThrowInContext("Invalid SUP value: " \o supText
               \o ". SUP should reference a parent objectClass name, not a reserved keyword",
             "INVALID_FIELD", schemaDefinition,
             "RFC 4512 - SUP must reference a valid parent objectClass")
  ELSE IF ~attributeNamePattern(supText)
  THEN ThrowInContext("Invalid SUP format: " \o supText
               \o ". Must be a valid objectClass name",
             "INVALID_FIELD", schemaDefinition,
             "RFC 4512 - SUP must follow objectClass naming conventions")
  ELSE NoError

\* the SUP checks of an object class, made only of a SUP that is a string
objectClassSupCheck(objectClass, schemaDefinition) ==
  IF ~objectClassSupIsString(objectClass) THEN NoError
  ELSE supTextCheck(objectClass.sup[1].items[1], schemaDefinition)

\* a variant of overlap that filters the MAY list by the MUST list
Mutant_overlap(objectClass) ==
  IF objectClass.must # <<>> /\ objectClass.may # <<>>
  THEN With(uniq(objectClass.may[1]),
            LAMBDA maySet : filterIn(maySet, objectClass.must[1]))
  ELSE <<>>

\* const overlap = [...mustSet].filter(attr => maySet.has(attr))
\* (made only when objectClass.must && objectClass.may)
overlap(objectClass) ==
  IF objectClass.must # <<>> /\ objectClass.may # <<>>
  THEN With(uniq(objectClass.must[1]),
            LAMBDA mustSet : filterIn(mustSet, objectClass.may[1]))
  ELSE <<>>

\* the MUST/MAY overlap check; the options are not consulted
overlapCheck(objectClass, schemaDefinition, options) ==
  With(overlap(objectClass), LAMBDA shared :
  IF shared # <<>>
  THEN ThrowInContext("Attributes cannot appear in both MUST and MAY: "
               \o join(shared, ", "),
             "VALIDATION_ERROR", schemaDefinition,
             "RFC 4512 Section 4.1.1 - MUST and MAY attributes must be mutually exclusive")
  ELSE NoError)

\* validateAttributeNames(attributes, listType): the first name of the list
\* that does not match is reported
validateAttributeNames(attributes, listType, schemaDefinition) ==
  IF \E n \in 1..Len(attributes) : ~attributeNamePattern(attributes[n])
  THEN With(CHOOSE n \in 1..Len(attributes) :
              /\ ~attributeNamePattern(attributes[n])
              /\ \A m \in 1..n - 1 : attributeNamePattern(attributes[m]),
            LAMBDA bad :
              ThrowInContext("Invalid attribute name in " \o listType \o ": "
                      \o attributes[bad]
                      \o ". Must follow RFC 4512 naming conventions",
                    "INVALID_NAME", schemaDefinition,
                    listType \o " attribute names must start with a letter and contain only letters, numbers, hyphens, and underscores"))
  ELSE NoError

\* if (list) validateAttributeNames(list, listType)
namesCheck(list, listType, schemaDefinition) ==
  IF list # <<>> THEN validateAttributeNames(list[1], listType, schemaDefinition)
  ELSE NoError

validObjectClassFields ==
  <<"type", "oid", "name", "desc", "sup", "objectClassType", "must", "may", "extensions">>

validAttributeTypeFields ==
  <<"type", "oid", "name", "desc", "sup", "equality", "ordering", "substr", "syntax",
    "singleValue", "collective", "noUserModification", "usage", "extensions">>

\* array.includes(item)
includes(array, item) == \E i \in DOMAIN array : array[i] = item

\* for (const key of Object.keys(record)) if (!validFields.includes(key)) throw
unknownFieldCheck(record, validFields, what, schemaDefinition) ==
  IF \E key \in DOMAIN record : ~includes(validFields, key)
  THEN With(CHOOSE k \in DOMAIN record : ~includes(validFields, k),
            LAMBDA key :
              ThrowInContext("Invalid field in " \o what \o " definition: " \o key
                      \o ". Check RFC 4512 specification for valid fields",
                    "INVALID_FIELD", schemaDefinition,
                    "Valid " \o what \o " fields are: " \o join(validFields, ", ")))
  ELSE NoError

\* the checks of  if (parsed.type === 'objectClass') { ... }  in their order
validateObjectClass(objectClass, schemaDefinition, options) ==
  Then(typeCheck(objectClass, schemaDefinition),
  Then(oidCheck(objectClass.oid, "2.5.6.6", schemaDefinition, options),
  Then(objectClassSupCheck(objectClass, schemaDefinition),
  Then(overlapCheck(objectClass, schemaDefinition, options),
  Then(namesCheck(objectClass.must, "MUST", schemaDefinition),
  Then(namesCheck(objectClass.may, "MAY", schemaDefinition),
       unknownFieldCheck(objectClass, validObjectClassFields, "objectClass",
                         schemaDefinition)))))))

AttributeTypeReservedKeywords ==
  {"EQUALITY", "ORDERING", "SUBSTR", "SYNTAX", "SINGLE-VALUE", "COLLECTIVE",
   "NO-USER-MODIFICATION", "USAGE"}

\* the SUP check of an attribute type: a reserved keyword is not a SUP
attributeSupCheck(attributeType, schemaDefinition) ==
  IF /\ attributeType.sup # <<>>
     /\ toUpperCase(attributeType.sup[1]) \in AttributeTypeReservedKeywords
  THEN ThrowInContext("Invalid SUP value: " \o attributeType.sup[1]
               \o ". SUP should reference a parent attributeType name, not a reserved keyword",
             "INVALID_FIELD", schemaDefinition,
             "RFC 4512 - SUP must reference a valid parent attributeType")
  ELSE NoError

\* a variant of supOrSyntaxCheck that never throws
Mutant_supOrSyntaxCheck(attributeType, schemaDefinition) == NoError

\* if (!attributeType.sup && !attributeType.syntax) throw ... ATTRIBUTETYPE_ERROR
supOrSyntaxCheck(attributeType, schemaDefinition) ==
  IF attributeType.sup = <<>> /\ attributeType.syntax = <<>>
  THEN ThrowInContext("AttributeType must have either SUP (superior type) or SYNTAX defined",
             "ATTRIBUTETYPE_ERROR", schemaDefinition,
             "RFC 4512 Section 4.1.2 - AttributeType must inherit from superior or define syntax")
  ELSE NoError

\* in strict mode the SYNTAX must be a numeric OID
syntaxCheck(attributeType, schemaDefinition, options) ==
  IF attributeType.syntax # <<>> /\ ~options.relaxedMode
  THEN With(SyntaxOidToString(attributeType.syntax[1].oid), LAMBDA text :
       IF ~oidPattern(text)
       THEN ThrowInContext("Invalid SYNTAX OID format: " \o text
                    \o ". In strict mode, SYNTAX must use standard numeric OID format (e.g., '1.3.6.1.4.1.1466.115.121.1.15'). Use relaxedMode: true to support OpenLDAP syntax names.",
                  "INVALID_FIELD", schemaDefinition,
                  "RFC 4512 - SYNTAX validation (relaxedMode: "
                    \o booleanText(options.relaxedMode) \o ")")
       ELSE NoError)
  ELSE NoError

\* a variant of validateAttributeType that checks the presence of SUP or
\* SYNTAX before the format of the OID
Mutant_validateAttributeType(attributeType, schemaDefinition, options) ==
  Then(supOrSyntaxCheck(attributeType, schemaDefinition),
  Then(oidCheck(attributeType.oid, "2.5.4.3", schemaDefinition, options),
  Then(attributeSupCheck(attributeType, schemaDefinition),
  Then(syntaxCheck(attributeType, schemaDefinition, options),
       unknownFieldCheck(attributeType, validAttributeTypeFields, "attributeType",
                         schemaDefinition)))))

\* the checks of  if (parsed.type === 'attributeType') { ... }  in their order
validateAttributeType(attributeType, schemaDefinition, options) ==
  Then(oidCheck(attributeType.oid, "2.5.4.3", schemaDefinition, options),
  Then(attributeSupCheck(attributeType, schemaDefinition),
  Then(supOrSyntaxCheck(attributeType, schemaDefinition),
  Then(syntaxCheck(attributeType, schemaDefinition, options),
       unknownFieldCheck(attributeType, validAttributeTypeFields, "attributeType",
                         schemaDefinition)))))

\* if (!parsed.oid) throw ...; if (!parsed.name) throw ...
requiredFieldsCheck(parsed, schemaDefinition) ==
  IF parsed.oid = ""
  THEN ThrowInContext("Missing OID in schema definition", "MISSING_FIELD",
             schemaDefinition,
             "OID field is required for all LDAP schema definitions")
  ELSE IF "name" \notin DOMAIN parsed \/ parsed.name = ""
  THEN ThrowInContext("Missing NAME in schema definition", "MISSING_FIELD",
             schemaDefinition,
             "NAME field is required for all LDAP schema definitions")
  ELSE NoError

\* the validation by the type of the record
typeSpecificCheck(parsed, schemaDefinition, options) ==
  IF parsed.type = "objectClass"
  THEN validateObjectClass(parsed, schemaDefinition, options)
  ELSE IF parsed.type = "attributeType"
  THEN validateAttributeType(parsed, schemaDefinition, options)
  ELSE NoError

\* a variant of parseAndValidate in which the location of the failure is
\* computed in the text parseSchema was given
Mutant_parseAndValidate(cleanInput, schemaDefinition, options) ==
  With(GrammarParse(cleanInput), LAMBDA g :
  IF ~g.ok
  THEN pegSyntaxError(schemaDefinition, g.far)
  ELSE Then(requiredFieldsCheck(g.val, schemaDefinition),
       Then(typeSpecificCheck(g.val, schemaDefinition, options),
            Return(g.val))))

\* const parsed = this._parser.parse(cleanInput) and what follows it
parseAndValidate(cleanInput, schemaDefinition, options) ==
  With(GrammarParse(cleanInput), LAMBDA g :
  IF ~g.ok
  THEN pegSyntaxError(cleanInput, g.far)
  ELSE Then(requiredFieldsCheck(g.val, schemaDefinition),
       Then(typeSpecificCheck(g.val, schemaDefinition, options),
            Return(g.val))))

\* the preprocessing of parseSchema: prefix removal, trim, OID transformation
cleanInputOf(schemaDefinition, options) ==
  With(removeOpenLDAPPrefix(schemaDefinition), LAMBDA removed :
  With(Trim(removed), LAMBDA trimmed :
  transformOpenLDAPOids(trimmed, options)))

\* a variant of tryParseSchema without the check of an empty definition
Mutant_tryParseSchema(schemaDefinition, options) ==
  With(cleanInputOf(schemaDefinition, options), LAMBDA cleanInput :
  IF ~options.relaxedMode /\ openldapOidPatternTest(cleanInput)
  THEN Throw("OpenLDAP configuration OIDs are not supported in strict RFC 4512 mode. Use relaxedMode: true to enable support.",
             "SYNTAX_ERROR", schemaDefinition, FALSE)
  ELSE parseAndValidate(cleanInput, schemaDefinition, options))

\* the try block of parseSchema: preprocessing, the grammar, then the
\* validation of the record; what it returns or throws
tryParseSchema(schemaDefinition, options) ==
  With(cleanInputOf(schemaDefinition, options), LAMBDA cleanInput :
  IF cleanInput = ""
  THEN Throw("Schema definition cannot be empty", "EMPTY_INPUT",
             schemaDefinition, FALSE)
  ELSE IF ~options.relaxedMode /\ openldapOidPatternTest(cleanInput)
  THEN Throw("OpenLDAP configuration OIDs are not supported in strict RFC 4512 mode. Use relaxedMode: true to enable support.",
             "SYNTAX_ERROR", schemaDefinition, FALSE)
  ELSE parseAndValidate(cleanInput, schemaDefinition, options))

\* parseSchema: try { ... } catch (error) { ... }
parseSchema(schemaDefinition, options) ==
  With(tryParseSchema(schemaDefinition, options),
       LAMBDA outcome : catchBlock(outcome, schemaDefinition))

\* what parseMultipleSchemas returns or throws: the records when every call
\* returned, else the error of the call that threw; calls is the number of
\* calls of parseSchema that were made
Mapped(records, calls) ==
  [ok |-> TRUE, data |-> records, thrown |-> <<>>, calls |-> calls]

Aborted(error, calls) ==
  [ok |-> FALSE, data |-> <<>>, thrown |-> <<error>>, calls |-> calls]

\* a variant of mapParseSchema that leaves out the definitions that fail
RECURSIVE Mutant_mapParseSchema(_, _, _, _)
Mutant_mapParseSchema(schemaDefinitions, options, i, records) ==
  IF i > Len(schemaDefinitions) THEN Mapped(records, i - 1)
  ELSE With(parseSchema(schemaDefinitions[i], options), LAMBDA r :
       Mutant_mapParseSchema(schemaDefinitions, options, i + 1,
                             IF r.ok THEN Append(records, r.data[1])
                             ELSE records))

\* schemaDefinitions.map(schema => this.parseSchema(schema)) from the i-th
\* element on: the callback is called for one element after the other, and
\* a callback that throws ends the map
RECURSIVE mapParseSchema(_, _, _, _)
mapParseSchema(schemaDefinitions, options, i, records) ==
  IF i > Len(schemaDefinitions) THEN Mapped(records, i - 1)
  ELSE With(parseSchema(schemaDefinitions[i], options), LAMBDA r :
       IF r.ok
       THEN mapParseSchema(schemaDefinitions, options, i + 1,
                           Append(records, r.data[1]))
       ELSE Aborted(r, i))

\* parseMultipleSchemas(schemaDefinitions)
parseMultipleSchemas(schemaDefinitions, options) ==
  mapParseSchema(schemaDefinitions, options, 1, <<>>)

\* isValidSchema: try { this.parseSchema(...); return true } catch { return false }
isValidSchema(schemaDefinition, options) ==
  parseSchema(schemaDefinition, options).ok

\* extractOID: the oid of the result, null (<<>>) when parseSchema throws
extractOID(schemaDefinition, options) ==
  With(parseSchema(schemaDefinition, options),
       LAMBDA r : IF r.ok THEN <<r.data[1].oid>> ELSE <<>>)

\* a variant of extractName without the try block: what parseSchema throws
\* reaches the caller
Mutant_extractName(schemaDefinition, options) ==
  With(parseSchema(schemaDefinition, options),
       LAMBDA r : IF r.ok THEN <<r.data[1].name>> ELSE <<r>>)

\* extractName: the name of the result, null (<<>>) when parseSchema throws
extractName(schemaDefinition, options) ==
  With(parseSchema(schemaDefinition, options),
       LAMBDA r : IF r.ok THEN <<r.data[1].name>> ELSE <<>>)

(***************************************************************************)
(* The state machine: a caller constructs a parser with its options,       *)
(* writes a schema definition piece by piece (ordinal prefix, opening      *)
(* parenthesis and OID, NAME, fields, closing parenthesis) and calls       *)
(* parseSchema on it.  The pieces are drawn from the menu of a family of   *)
(* inputs, chosen with the options.                                        *)
(***************************************************************************)
VARIABLES options, family, prefix, body, fields, stage, result, schemas, batch,
          given, helped, view, written, rendered

vars == <<options, family, prefix, body, fields, stage, result, schemas, batch,
          given, helped, view, written, rendered>>

\* the number of fields written after NAME
MaxFields == 3

\* the number of definitions given to parseMultipleSchemas
MaxBatch == 3

Families ==
  {"objectClass", "attributeType", "ldapSyntax", "prefix", "vendor", "batch",
   "instance", "classOrder", "typeOrder", "plain"}

\* what stands before the opening parenthesis
Prefixes(f) ==
  CASE f = "prefix" -> {"", "{0}", "{57}", " {00123} ", "{99999999999999999999}\n ",
                         "\t{5}", "\f {8}\r\n", "{x}", "{}", "{3}{5}", "x{4}",
                         "{0", "0}"}
    [] OTHER        -> {""}

\* the opening parenthesis and the OID
Oids(f) ==
  CASE f = "objectClass"   -> {"( 2.5.6.6", "( 2.5.6.", "( OLcfgOvOc:1.1"}
    [] f = "attributeType" -> {"( 2.5.4.3", "(..5", "( OLcfgOvAt:18.1"}
    [] f = "ldapSyntax"    -> {"( 1.3.6.1.4.1.1466.115.121.1.15", "(1.2.", "( OLcfgGlAt:5"}
    [] f = "prefix"        -> {"( 2.5.6.6", " \n( 2.5.6.6"}
    [] f = "vendor"        -> {"( 2.5.4.3", "( OLcfgOvAt:18.1", "( OLcfgGlOc:.",
                               "( OLcfgDbAt:7x", "OLcfgOvAt:1."}
    [] f = "batch"         -> {"( 2.5.6.6"}
    [] f = "instance"      -> {"( 2.5.6.6"}
    [] f = "classOrder"    -> {"( 2.5.6.6"}
    [] f = "typeOrder"     -> {"( 2.5.4.3"}
    [] f = "plain"         -> {"( 2.5.6.6", "( 2.5.6.", "( OLcfgOvOc:1.1"}

\* the NAME field
Names(f) ==
  CASE f = "objectClass"   -> {" NAME 'test'", " NAME ''"}
    [] f = "attributeType" -> {" NAME 'test'", " NAME ( 'cn' 'commonName' )"}
    [] f = "ldapSyntax"    -> {""}
    [] f = "prefix"        -> {" NAME 'test'"}
    [] f = "vendor"        -> {" NAME 'test'", ""}
    [] f = "batch"         -> {" NAME 'test'"}
    [] f = "instance"      -> {" NAME 'test'"}
    [] f = "classOrder"    -> {" NAME 'test'"}
    [] f = "plain"         -> {" NAME 'test'"}
    [] f = "typeOrder"     -> {" NAME 'test'", " NAME ( 'test' 'alias' )",
                               " NAME ( 'cn' 'test' 'alias' )"}

\* the fields after NAME
Fields(f) ==
  CASE f = "objectClass" ->
         {" SUP top", " SUP MUST", " STRUCTURAL", " AUXILIARY",
          " MUST ( cn $ a1 $ a2 $ a1 )", " MAY ( a2 $ a1 )"}
    [] f = "attributeType" ->
         {" DESC 'd'", " SUP name", " SUP syntax", " SYNTAX 1.3.6.1{64}",
          " SYNTAX OMsDirectoryString", " SYNTAX My-Syntax_1"}
    [] f = "ldapSyntax" ->
         {" DESC 'Directory String'", " DESC ''", " X-NOT-HUMAN-READABLE 'TRUE'",
          " X-ORIGIN RFC4517", " X-ORIGIN 'user defined'", "X-BINARY-TRANSFER-REQUIRED 'TRUE'"}
    [] f = "prefix" ->
         {" SUP top", " STRUCTURAL", " MUST cn"}
    [] f = "vendor" ->
         {" DESC 'OLcfgOvAt:1.2'", " DESC 'xOLcfgDbOc:1.2'", " DESC 'OLcfgGlAt:..'",
          " DESC 'OLcfgDbAt:12abc'", " SYNTAX 1.3.6.1", " @ OLcfgGlOc:3"}
    [] f = "batch" ->
         {" STRUCTURAL"}
    [] f = "instance" ->
         {" STRUCTURAL"}
    [] f = "typeOrder" ->
         {" DESC 'd'", " SUP name", " EQUALITY caseIgnoreMatch", " SYNTAX 1.3.6.1",
          " SINGLE-VALUE", " USAGE userApplications", " X-ORIGIN 'RFC 4519'"}
    [] f = "plain" ->
         {" DESC 'd'", " SUP top", " SUP syntax", " SUP Usage", " SUP 2.5.6.0"}
    [] f = "classOrder" ->
         {" DESC 'd'", " SUP top", " STRUCTURAL", " AUXILIARY", " MUST cn",
          " MAY ( sn $ cn )"}

\* a definition without text: nothing, or white space only
Blanks == {"", " ", "\t\n "}

\* the definitions of which the array given to parseMultipleSchemas is
\* made: an object class, an attribute type after an ordinal marker, an
\* object class without kind, an attribute type with a malformed OID, an
\* attribute type with a vendor OID
Definitions ==
  {"( 2.5.6.6 NAME 'person' SUP top STRUCTURAL )",
   "{1}( 2.5.4.3 NAME 'cn' SUP name )",
   "( 2.5.6.7 NAME 'noKind' MUST cn )",
   "( 2.5.4. NAME 'bad' SUP name )",
   "( OLcfgOvAt:1.1 NAME 'v' SYNTAX 1.3.6.1 )"}

\* the arrays of at most n definitions
RECURSIVE Arrays(_)
Arrays(n) ==
  IF n = 0 THEN {<<>>}
  ELSE With(Arrays(n - 1), LAMBDA shorter :
       shorter \cup {Append(a, d) : a \in {x \in shorter : Len(x) = n - 1},
                                    d \in Definitions})

\* the closing parenthesis
Closings(f) ==
  CASE f = "prefix" -> {" )", ")\n ", ""}
    [] OTHER        -> {" )"}

\* the options a caller can give: relaxedMode is false when not given;
\* allowMustMayOverlap is not given (<<>>) or true.  The object classes and
\* the attribute types are parsed with allowMustMayOverlap given and not
\* given, the other families with the option not given.
OptionsSet(f) ==
  [relaxedMode : BOOLEAN,
   allowMustMayOverlap : IF f \in {"objectClass", "attributeType"}
                         THEN {<<>>, <<TRUE>>}
                         ELSE {<<>>}]

\* the argument of the constructor: no argument (<<>>), or an object whose
\* properties are given or not.  The families of inputs are parsed by
\* parsers constructed with relaxedMode given; the family "instance" also
\* by parsers constructed without argument and without relaxedMode.
GivenSet(f) ==
  {<<[relaxedMode |-> <<o.relaxedMode>>,
      allowMustMayOverlap |-> o.allowMustMayOverlap]>> : o \in OptionsSet(f)}
  \cup (IF f = "instance"
        THEN {<<>>, <<[relaxedMode |-> <<>>, allowMustMayOverlap |-> <<>>]>>,
              <<[relaxedMode |-> <<>>, allowMustMayOverlap |-> <<TRUE>>]>>}
        ELSE {})

\* a variant of the constructor whose default of relaxedMode is true
Mutant_construct(argument) ==
  IF argument = <<>> THEN [relaxedMode |-> TRUE, allowMustMayOverlap |-> <<>>]
  ELSE [relaxedMode |-> IF argument[1].relaxedMode = <<>> THEN TRUE
                        ELSE argument[1].relaxedMode[1],
        allowMustMayOverlap |-> argument[1].allowMustMayOverlap]

\* this._argument = { relaxedMode: false, ...argument }
construct(argument) ==
  IF argument = <<>> THEN [relaxedMode |-> FALSE, allowMustMayOverlap |-> <<>>]
  ELSE [relaxedMode |-> IF argument[1].relaxedMode = <<>> THEN FALSE
                        ELSE argument[1].relaxedMode[1],
        allowMustMayOverlap |-> argument[1].allowMustMayOverlap]

\* a variant of the options getter that returns the object of the parser
Mutant_getOptions(ownOptions) == [value |-> ownOptions, own |-> TRUE]

\* get options(): { ...this._options }, an object of its own: own tells
\* whether the object returned is the one the parser holds
getOptions(ownOptions) == [value |-> ownOptions, own |-> FALSE]

\* definitions of 100, 101 and 120 characters: two object classes without
\* kind, and an object class with a word the grammar does not know
LongDefinitions ==
  {"( 2.5.6.7 NAME 'noKind' DESC 'a description that is as long as the preview of the detaile' MUST cn )",
   "( 2.5.6.7 NAME 'noKind' DESC 'a description that is as long as the preview of the detailed' MUST cn )",
   "( 2.5.6.6 NAME 'test' DESC 'a description that is as long as the preview of the detailed message allow' invalid-syntax )"}

\* the whole definitions given to isValidSchema, extractOID and extractName,
\* and to parseSchema by WriteDefinition
Inputs ==
  Definitions \cup LongDefinitions
  \cup {"", "( 2.5.4.3 NAME 'cn'", "{7} ( 2.5.4.3 NAME ( 'cn' 'commonName' ) SUP name )"}

\* the text given to parseSchema
schemaDefinition == prefix \o body

NotCalled == Throw("", "NOT_CALLED", "", FALSE)

NotMapped == Aborted(NotCalled, 0)

\* no call of isValidSchema, extractOID or extractName yet
NotHelped == [op |-> "", input |-> "", value |-> <<>>]

\* new RFC4512Parser(options), and nothing written yet
Init ==
  /\ family \in Families
  /\ given \in GivenSet(family)
  /\ options = construct(given)
  /\ helped = NotHelped
  /\ view = <<>>
  /\ written = <<>>
  /\ rendered = <<>>
  /\ prefix = ""
  /\ body = ""
  /\ fields = 0
  /\ stage = "prefix"
  /\ result = NotCalled
  /\ schemas = <<>>
  /\ batch = NotMapped

WritePrefix ==
  /\ stage = "prefix"
  /\ \E p \in Prefixes(family) : prefix' = p
  /\ stage' = "oid"
  /\ UNCHANGED <<options, family, body, fields, result, schemas, batch,
               given, helped, view, written, rendered>>

WriteOid ==
  /\ stage = "oid"
  /\ \E o \in Oids(family) : body' = o
  /\ stage' = "name"
  /\ UNCHANGED <<options, family, prefix, fields, result, schemas, batch,
               given, helped, view, written, rendered>>

\* the caller leaves the definition without text after the prefix
WriteBlank ==
  /\ stage = "oid"
  /\ \E b \in Blanks : body' = b
  /\ stage' = "ready"
  /\ UNCHANGED <<options, family, prefix, fields, result, schemas, batch,
               given, helped, view, written, rendered>>

WriteName ==
  /\ stage = "name"
  /\ \E n \in Names(family) : body' = body \o n
  /\ stage' = "fields"
  /\ UNCHANGED <<options, family, prefix, fields, result, schemas, batch,
               given, helped, view, written, rendered>>

WriteField ==
  /\ stage = "fields"
  /\ fields < MaxFields
  /\ \E f \in Fields(family) : body' = body \o f /\ written' = Append(written, f)
  /\ fields' = fields + 1
  /\ UNCHANGED <<options, family, prefix, stage, result, schemas, batch,
               given, helped, view, rendered>>

WriteClose ==
  /\ stage = "fields"
  /\ \E c \in Closings(family) : body' = body \o c
  /\ stage' = "ready"
  /\ UNCHANGED <<options, family, prefix, fields, result, schemas, batch,
               given, helped, view, written, rendered>>

\* parser.parseSchema(schemaDefinition)
CallParseSchema ==
  /\ stage = "ready"
  /\ result' = parseSchema(schemaDefinition, options)
  /\ stage' = "done"
  /\ UNCHANGED <<options, family, prefix, body, fields, schemas, batch,
               given, helped, view, written, rendered>>

\* parser.parseMultipleSchemas(schemas), of a parser on which nothing else
\* has been called
CallParseMultipleSchemas ==
  /\ stage = "prefix"
  /\ \E a \in Arrays(MaxBatch) :
       /\ schemas' = a
       /\ batch' = parseMultipleSchemas(a, options)
  /\ stage' = "mapped"
  /\ UNCHANGED <<options, family, prefix, body, fields, result,
               given, helped, view, written, rendered>>

\* the parser is constructed and none of its definitions is being written
Idle == stage \in {"prefix", "used"}

\* parser.isValidSchema(input)
CallIsValidSchema ==
  /\ Idle
  /\ \E i \in Inputs :
       helped' = [op |-> "isValidSchema", input |-> i,
                  value |-> <<isValidSchema(i, options)>>]
  /\ stage' = "used"
  /\ UNCHANGED <<options, family, prefix, body, fields, result, schemas, batch,
                 given, view, written, rendered>>

\* parser.extractOID(input)
CallExtractOID ==
  /\ Idle
  /\ \E i \in Inputs :
       helped' = [op |-> "extractOID", input |-> i,
                  value |-> extractOID(i, options)]
  /\ stage' = "used"
  /\ UNCHANGED <<options, family, prefix, body, fields, result, schemas, batch,
                 given, view, written, rendered>>

\* parser.extractName(input)
CallExtractName ==
  /\ Idle
  /\ \E i \in Inputs :
       helped' = [op |-> "extractName", input |-> i,
                  value |-> extractName(i, options)]
  /\ stage' = "used"
  /\ UNCHANGED <<options, family, prefix, body, fields, result, schemas, batch,
                 given, view, written, rendered>>

\* const o = parser.options
ReadOptions ==
  /\ Idle
  /\ view' = <<getOptions(options)>>
  /\ stage' = "used"
  /\ UNCHANGED <<options, family, prefix, body, fields, result, schemas, batch,
                 given, helped, written, rendered>>

\* o.relaxedMode = !o.relaxedMode, by the caller, on the object the getter
\* returned: the options of the parser change when that object is its own
ChangeReadOptions ==
  /\ stage = "used"
  /\ view # <<>>
  /\ view' = <<[view[1] EXCEPT !.value.relaxedMode = ~@]>>
  /\ options' = IF view[1].own THEN view'[1].value ELSE options
  /\ UNCHANGED <<family, prefix, body, fields, stage, result, schemas, batch,
                 given, helped, written, rendered>>

\* error.getDetailedMessage(), of the error parseSchema has thrown
CallGetDetailedMessage ==
  /\ stage = "done"
  /\ ~result.ok
  /\ rendered' = <<getDetailedMessage(result)>>
  /\ stage' = "rendered"
  /\ UNCHANGED <<options, family, prefix, body, fields, result, schemas, batch,
                 given, helped, view, written>>

\* the caller writes a whole definition, for a parser that has been used:
\* after calls of isValidSchema, extractOID, extractName and reads of the
\* options, after parseMultipleSchemas of at most one definition, and in
\* the family "instance" after parseSchema
WriteDefinition ==
  /\ \/ stage = "used"
     \/ stage = "mapped" /\ Len(schemas) <= 1
     \/ stage = "done" /\ family = "instance"
  /\ \E d \in Inputs : body' = d
  /\ prefix' = ""
  /\ stage' = "ready"
  /\ UNCHANGED <<options, family, fields, result, schemas, batch,
                 given, helped, view, written, rendered>>

Next ==
  \/ WritePrefix
  \/ WriteOid
  \/ WriteBlank
  \/ WriteName
  \/ WriteField
  \/ WriteClose
  \/ CallParseSchema
  \/ CallParseMultipleSchemas
  \/ CallIsValidSchema
  \/ CallExtractOID
  \/ CallExtractName
  \/ ReadOptions
  \/ ChangeReadOptions
  \/ WriteDefinition
  \/ CallGetDetailedMessage

Spec == Init /\ [][Next]_vars

\* parseSchema has returned or thrown
Done == stage = "done"

\* the text the grammar is given: the definition without its ordinal prefix
\* and the surrounding white space
CleanInput == cleanInputOf(schemaDefinition, options)

\* what the grammar makes of the definition, before any validation:
\* [ok, val], val the record when ok
Parse == With(CleanInput, LAMBDA s : GrammarParse(s))

(***************************************************************************)
(* Specifications: every family of inputs, and one family at a time        *)
(***************************************************************************)
InitObjectClass == Init /\ family = "objectClass"

SpecObjectClass == InitObjectClass /\ [][Next]_vars

InitAttributeType == Init /\ family = "attributeType"

SpecAttributeType == InitAttributeType /\ [][Next]_vars

InitLdapSyntax == Init /\ family = "ldapSyntax"

SpecLdapSyntax == InitLdapSyntax /\ [][Next]_vars

InitPrefix == Init /\ family = "prefix"

SpecPrefix == InitPrefix /\ [][Next]_vars

InitVendor == Init /\ family = "vendor"

SpecVendor == InitVendor /\ [][Next]_vars

InitBatch == Init /\ family = "batch"

SpecBatch == InitBatch /\ [][Next]_vars

InitClassOrder == Init /\ family = "classOrder"

SpecClassOrder == InitClassOrder /\ [][Next]_vars

InitTypeOrder == Init /\ family = "typeOrder"

SpecTypeOrder == InitTypeOrder /\ [][Next]_vars

InitPlain == Init /\ family = "plain"

SpecPlain == InitPlain /\ [][Next]_vars

InitInstance == Init /\ family = "instance"

SpecInstance == InitInstance /\ [][Next]_vars

(***************************************************************************)
(* Properties                                                              *)
(***************************************************************************)
\* the kind of the first violated check of an object class record oc, in the
\* order kind -> OID format -> SUP -> MUST/MAY overlap -> attribute names,
\* "" when no check is violated
FirstViolatedCheck(oc) ==
  IF oc.objectClassType = <<>> THEN "OBJECTCLASS_ERROR"
  ELSE IF ~(\/ oidPattern(oc.oid)
            \/ options.relaxedMode /\ openldapOidPattern(oc.oid))
  THEN "INVALID_OID"
  ELSE IF /\ oc.sup # <<>>
          /\ \E n \in 1..Len(oc.sup[1].items) :
               \/ toUpperCase(oc.sup[1].items[n]) \in ObjectClassReservedKeywords
               \/ ~attributeNamePattern(oc.sup[1].items[n])
  THEN "INVALID_FIELD"
  ELSE IF /\ oc.must # <<>> /\ oc.may # <<>>
          /\ \E a \in 1..Len(oc.must[1]), b \in 1..Len(oc.may[1]) :
               oc.must[1][a] = oc.may[1][b]
  THEN "VALIDATION_ERROR"
  ELSE IF \/ oc.must # <<>> /\ \E n \in 1..Len(oc.must[1]) :
                                  ~attributeNamePattern(oc.must[1][n])
          \/ oc.may # <<>> /\ \E n \in 1..Len(oc.may[1]) :
                                 ~attributeNamePattern(oc.may[1][n])
  THEN "INVALID_NAME"
  ELSE ""

\* C1: for an object class that the grammar accepts (with a NAME that is not
\* empty), parseSchema reports the first violated check of the order
\* kind -> OID format -> SUP -> MUST/MAY overlap -> attribute-name format,
\* with the kind OBJECTCLASS_ERROR, INVALID_OID, INVALID_FIELD,
\* VALIDATION_ERROR, INVALID_NAME respectively, and succeeds when none is
\* violated.  (Stated for allowMustMayOverlap not true.)
C1_FirstViolatedCheckIsReported ==
  (/\ Done
   /\ options.allowMustMayOverlap # <<TRUE>>
   /\ result.grammarInvoked)
  => \A g \in {Parse} :
       (g.ok /\ g.val.type = "objectClass" /\ g.val.name # "")
       => \A expected \in {FirstViolatedCheck(g.val)} :
            /\ result.type = expected
            /\ result.ok <=> expected = ""

\* the MUST and MAY lists of the object class record oc share a name
SharesAttribute(oc) ==
  /\ oc.must # <<>> /\ oc.may # <<>>
  /\ \E a \in 1..Len(oc.must[1]), b \in 1..Len(oc.may[1]) :
       oc.must[1][a] = oc.may[1][b]

\* the names MUST and MAY share, once each, in the order of their first
\* occurrence in MUST
SharedNames(oc) ==
  \* the indices of MUST that hold the first occurrence of a shared name
  With({i \in 1..Len(oc.must[1]) :
          /\ \E b \in 1..Len(oc.may[1]) : oc.may[1][b] = oc.must[1][i]
          /\ \A j \in 1..i - 1 : oc.must[1][j] # oc.must[1][i]},
       LAMBDA first : atIndices(oc.must[1], first))

\* the text holds the beginning of a vendor OID
HoldsOLcfg == Contains(schemaDefinition, "OLcfg")

\* the object class record oc passes the checks made before the overlap
\* check: NAME not empty, a kind, an OID of a valid format
PassesEarlierChecks(oc) ==
  /\ oc.name # ""
  /\ oc.objectClassType # <<>>
  /\ \/ oidPattern(oc.oid)
     \/ options.relaxedMode /\ openldapOidPattern(oc.oid)

OverlapIsReported(oc) ==
  /\ ~result.ok
  /\ result.type = "VALIDATION_ERROR"
  /\ result.message = "Attributes cannot appear in both MUST and MAY: "
                        \o join(SharedNames(oc), ", ")

\* C2 (as stated): with allowMustMayOverlap false or unset, parseSchema of
\* an object class whose MUST and MAY share a name fails with
\* VALIDATION_ERROR and the message lists the shared names once each,
\* joined by ", ", in the order of first occurrence in MUST.
C2_AnyOverlapIsReported ==
  (Done /\ options.allowMustMayOverlap # <<TRUE>>)
  => \A g \in {Parse} :
       (g.ok /\ g.val.type = "objectClass" /\ SharesAttribute(g.val))
       => OverlapIsReported(g.val)

\* C2 (amended): the same, for an object class that passes the checks made
\* before the overlap check (NAME not empty, a kind keyword, a well-formed
\* OID, and in strict mode no vendor OID in the text).
C2_OverlapIsReportedAfterEarlierChecks ==
  (/\ Done
   /\ options.allowMustMayOverlap # <<TRUE>>
   /\ options.relaxedMode \/ ~HoldsOLcfg)
  => \A g \in {Parse} :
       (/\ g.ok /\ g.val.type = "objectClass"
        /\ SharesAttribute(g.val)
        /\ PassesEarlierChecks(g.val))
       => OverlapIsReported(g.val)

\* an overlap of two names, one of them twice in MUST, has been reported
W2_TwoSharedNamesReported ==
  /\ Done
  /\ options.allowMustMayOverlap # <<TRUE>>
  /\ Contains(schemaDefinition, " MUST ( cn $ a1 $ a2 $ a1 )")
  /\ Contains(schemaDefinition, " MAY ( a2 $ a1 )")
  /\ result.type = "VALIDATION_ERROR"
  /\ result.message = "Attributes cannot appear in both MUST and MAY: a1, a2"

\* C3: with allowMustMayOverlap = true, parseSchema of an otherwise valid
\* object class whose MUST and MAY share a name succeeds, and the result's
\* must and may are the lists of the definition, so that every shared name
\* is in both.
C3_OverlapAllowedWhenOptionSet ==
  (Done /\ options.allowMustMayOverlap = <<TRUE>>)
  => \A g \in {Parse} :
       (/\ g.ok /\ g.val.type = "objectClass"
        /\ SharesAttribute(g.val)
        /\ result.grammarInvoked
        /\ FirstViolatedCheck([g.val EXCEPT !.may = <<>>]) = ""
        /\ FirstViolatedCheck([g.val EXCEPT !.must = <<>>]) = "")
       => /\ result.ok
          /\ isValidSchema(schemaDefinition, options)
          /\ result.data[1].must = g.val.must
          /\ result.data[1].may = g.val.may

\* a vendor OID token OLcfg(Ov|Db|Gl)(At|Oc):<digits and dots> stands at
\* position i of the text
VendorTokenAt(s, i) ==
  \E p \in {FirstLit(s, i, OpenLdapPrefixes)} :
     p.ok /\ Ch(s, p.pos) = ":" /\ Ch(s, p.pos + 1) \in OidChar

\* a vendor OID token stands at position i, begins a word there, and its
\* digits and dots hold a digit at which a word ends
DelimitedVendorTokenAt(s, i) ==
  /\ Ch(s, i - 1) \notin RegexWordChar
  /\ \E p \in {FirstLit(s, i, OpenLdapPrefixes)} :
       /\ p.ok /\ Ch(s, p.pos) = ":"
       /\ \E e \in p.pos + 1..Len(s) :
            /\ \A k \in p.pos + 1..e : Ch(s, k) \in OidChar
            /\ Ch(s, e) \in Digit
            /\ Ch(s, e + 1) \notin RegexWordChar

RejectedBeforeGrammar ==
  ~result.ok /\ result.type = "SYNTAX_ERROR" /\ ~result.grammarInvoked

\* C4 (as stated): in strict mode, every non-empty input that holds a vendor
\* OID token anywhere in its text fails with SYNTAX_ERROR before the grammar
\* is invoked.
C4_AnyVendorTokenIsRejected ==
  (/\ Done /\ ~options.relaxedMode
   /\ \E i \in 1..Len(schemaDefinition) : VendorTokenAt(schemaDefinition, i))
  => RejectedBeforeGrammar

\* C4 (amended): in strict mode, every input that holds a vendor OID token
\* which begins at the start of the text or after a character other than a
\* letter, a digit or "_", and whose digits and dots hold a digit followed
\* by the end of the text or by a character other than a letter, a digit or
\* "_", fails with SYNTAX_ERROR before the grammar is invoked.
C4_DelimitedVendorTokenIsRejected ==
  (/\ Done /\ ~options.relaxedMode
   /\ \E i \in 1..Len(schemaDefinition) :
        DelimitedVendorTokenAt(schemaDefinition, i))
  => RejectedBeforeGrammar

\* a definition with a numeric OID whose only vendor OID token is inside a
\* quoted DESC has been rejected before the grammar was invoked
W4_TokenInsideDescRejected ==
  /\ Done /\ ~options.relaxedMode
  /\ body = "( 2.5.4.3 NAME 'test' DESC 'OLcfgOvAt:1.2' SYNTAX 1.3.6.1 )"
  /\ RejectedBeforeGrammar

\* C5: in relaxed mode, an attribute type whose OID is a vendor OID
\* <prefix>:<dotted-decimal> and whose SYNTAX is a vendor syntax name (a
\* letter followed by letters, digits, "_" or "-") parses successfully as an
\* attributeType whose oid and syntax.oid are the input tokens as strings.
C5_VendorSyntaxNameIsAString ==
  (Done /\ options.relaxedMode)
  => \A g \in {Parse} :
       (/\ g.ok /\ g.val.type = "attributeType"
        /\ openldapOidPattern(g.val.oid)
        /\ g.val.syntax # <<>>
        /\ attributeNamePattern(g.val.syntax[1].oid.text))
       => /\ result.ok
          /\ result.data[1].type = "attributeType"
          /\ Contains(schemaDefinition, "( " \o result.data[1].oid \o " ")
          /\ result.data[1].syntax[1].oid.str
          /\ Contains(schemaDefinition,
                      " SYNTAX " \o result.data[1].syntax[1].oid.text \o " ")

\* the text holds no vendor-specific token: no vendor OID, and the SYNTAX
\* of the record, if any, is made of digits and dots
NoVendorToken(record) ==
  /\ ~HoldsOLcfg
  /\ (record.type = "attributeType" /\ record.syntax # <<>>)
     => /\ record.syntax[1].oid.str
        /\ \A i \in 1..Len(record.syntax[1].oid.text) :
             Ch(record.syntax[1].oid.text, i) \in OidChar

\* C6: for every input without a vendor-specific token and every value of
\* allowMustMayOverlap, if parseSchema succeeds in strict mode then
\* parseSchema in relaxed mode succeeds too and returns an equal result.
C6_RelaxedAgreesWithStrict ==
  (Done /\ ~options.relaxedMode /\ result.ok /\ NoVendorToken(result.data[1]))
  => \A relaxed \in {parseSchema(schemaDefinition,
                                 [options EXCEPT !.relaxedMode = TRUE])} :
       relaxed.ok /\ relaxed = result

\* an attribute type with a numeric SYNTAX has been parsed in strict mode
W6_StrictAttributeTypeParsed ==
  /\ Done /\ ~options.relaxedMode /\ result.ok
  /\ result.data[1].type = "attributeType"
  /\ result.data[1].syntax # <<>>
  /\ NoVendorToken(result.data[1])

\* the text p is an ordinal marker {N}, N of one or more digits, with
\* white space before and after it or not
IsMarker(p) ==
  \E a \in 1..Len(p), b \in 1..Len(p) :
     /\ a + 1 < b
     /\ Ch(p, a) = "{" /\ Ch(p, b) = "}"
     /\ \A k \in 1..a - 1 : Ch(p, k) \in JsWs
     /\ \A k \in a + 1..b - 1 : Ch(p, k) \in Digit
     /\ \A k \in b + 1..Len(p) : Ch(p, k) \in JsWs

\* C7: for a body on which parseSchema succeeds and a marker {N} of any
\* number of digits, with white space around it or not, parseSchema of the
\* marker followed by the body succeeds with a result equal to that of the
\* body, and extractOID, extractName and isValidSchema agree on the two.
C7_PrefixIsTransparent ==
  (Done /\ IsMarker(prefix))
  => \A ofBody \in {parseSchema(body, options)} :
       ofBody.ok
       => /\ result.ok /\ result = ofBody
          /\ extractOID(schemaDefinition, options) = extractOID(body, options)
          /\ extractName(schemaDefinition, options) = extractName(body, options)
          /\ isValidSchema(schemaDefinition, options)
               = isValidSchema(body, options)

\* a body after a marker of many digits between white space has been parsed
W7_LongMarkerParsed ==
  /\ Done /\ result.ok
  /\ prefix = "{99999999999999999999}\n "
  /\ parseSchema(body, options).ok

\* C8: for every input of the LDAP syntax form ( OID [DESC 'text'] [X-*
\* pairs] ) with a dotted-decimal OID and no NAME, parseSchema succeeds, in
\* strict and in relaxed mode, with the ldapSyntax record of that oid, the
\* desc if given and the extensions of the X-* pairs.
C8_LdapSyntaxIsParsed ==
  Done
  => \A g \in {Parse} :
       (g.ok /\ g.val.type = "ldapSyntax" /\ oidPattern(g.val.oid))
       => result.ok /\ result.data[1] = g.val

\* the text holds none of the kind keywords
NoKindKeyword ==
  \A kw \in ObjectClassTypes : ~Contains(schemaDefinition, kw)

MissingKindIsReported ==
  /\ ~result.ok
  /\ result.type = "OBJECTCLASS_ERROR"
  /\ result.message
       = "ObjectClass must specify exactly one type: STRUCTURAL, AUXILIARY, or ABSTRACT"
  /\ result.schemaDefinition = schemaDefinition

\* C9 (as stated): for an input that the grammar recognizes as an object
\* class (it carries MUST or MAY) and that holds none of the kind keywords,
\* parseSchema fails with OBJECTCLASS_ERROR, the message saying that the
\* object class must specify exactly one type, the schemaDefinition being
\* the input.
C9_AnyMissingKindIsReported ==
  (Done /\ NoKindKeyword)
  => \A g \in {Parse} :
       (/\ g.ok /\ g.val.type = "objectClass"
        /\ g.val.must # <<>> \/ g.val.may # <<>>)
       => MissingKindIsReported

\* C9 (amended): the same, for an input whose NAME is not empty and which,
\* in strict mode, holds no vendor OID.
C9_MissingKindIsReportedAfterEarlierChecks ==
  (/\ Done /\ NoKindKeyword
   /\ options.relaxedMode \/ ~HoldsOLcfg)
  => \A g \in {Parse} :
       (/\ g.ok /\ g.val.type = "objectClass"
        /\ g.val.must # <<>> \/ g.val.may # <<>>
        /\ g.val.name # "")
       => MissingKindIsReported

\* an object class with MUST and MAY and no kind has been reported
W9_MissingKindReported ==
  /\ Done
  /\ body = "( 2.5.6.6 NAME 'test' SUP top MUST ( cn $ a1 $ a2 $ a1 ) )"
  /\ MissingKindIsReported

\* the number of kind keywords in the text
KindKeywords ==
  Cardinality({i \in 1..Len(schemaDefinition) :
                 \E kw \in ObjectClassTypes : Lit(schemaDefinition, i, kw)})

\* C10: parseSchema fails, and isValidSchema is false, for every object
\* class definition with more than one kind keyword; a returned objectClass
\* record stems from a definition with exactly one kind keyword.
C10_OneKindKeywordOnly ==
  Done
  => /\ \A g \in {Parse} :
          (g.ok /\ g.val.type = "objectClass" /\ KindKeywords > 1)
          => ~result.ok /\ ~isValidSchema(schemaDefinition, options)
     /\ (result.ok /\ result.data[1].type = "objectClass") => KindKeywords = 1

\* the text is a dotted-decimal number: digits, then groups of a dot and
\* digits
IsDottedDecimal(t) ==
  /\ Len(t) > 0
  /\ \A i \in 1..Len(t) : Ch(t, i) \in Digit \cup {"."}
  /\ Ch(t, 1) # "." /\ Ch(t, Len(t)) # "."
  /\ \A i \in 1..Len(t) - 1 : ~(Ch(t, i) = "." /\ Ch(t, i + 1) = ".")

\* the SYNTAX of the attribute type record at is a string that is a
\* dotted-decimal number
NumericSyntax(at) ==
  at.syntax[1].oid.str /\ IsDottedDecimal(at.syntax[1].oid.text)

\* every returned attribute type has sup or syntax, and in strict mode a
\* syntax that is a dotted-decimal number
ReturnedAttributeTypeIsSound ==
  (result.ok /\ result.data[1].type = "attributeType")
  => /\ result.data[1].sup # <<>> \/ result.data[1].syntax # <<>>
     /\ (~options.relaxedMode /\ result.data[1].syntax # <<>>)
        => NumericSyntax(result.data[1])

\* what is reported for an attribute type record at without sup and syntax,
\* and in strict mode for one whose syntax is not a dotted-decimal number
SupOrSyntaxIsReported(at) ==
  /\ (at.sup = <<>> /\ at.syntax = <<>>)
     => ~result.ok /\ result.type = "ATTRIBUTETYPE_ERROR"
  /\ (~options.relaxedMode /\ at.syntax # <<>> /\ ~NumericSyntax(at))
     => /\ ~result.ok /\ result.type = "INVALID_FIELD"
        /\ Lit(result.message, 1, "Invalid SYNTAX OID format: ")

\* the attribute type record at passes the checks made before the check of
\* SUP or SYNTAX: NAME not empty, an OID of a valid format, a SUP that is
\* not a reserved keyword
PassesAttributeChecksBeforeSyntax(at) ==
  /\ at.name # ""
  /\ \/ IsDottedDecimal(at.oid)
     \/ options.relaxedMode /\ openldapOidPattern(at.oid)
  /\ at.sup # <<>> => toUpperCase(at.sup[1]) \notin AttributeTypeReservedKeywords

\* C11 (as stated): every returned attributeType record has sup or syntax,
\* and in strict mode a syntax OID that is a dotted-decimal number; every
\* attribute-type input with neither sup nor syntax fails with
\* ATTRIBUTETYPE_ERROR, and every one with a non-numeric syntax fails in
\* strict mode with INVALID_FIELD.
C11_AnyMissingSupAndSyntaxIsReported ==
  Done
  => /\ ReturnedAttributeTypeIsSound
     /\ \A g \in {Parse} :
          (g.ok /\ g.val.type = "attributeType")
          => SupOrSyntaxIsReported(g.val)

\* C11 (amended): the same, the two failures being those of an input that
\* passes the checks made before (NAME not empty, a well-formed OID, a SUP
\* that is not a reserved keyword, and in strict mode no vendor OID in the
\* text).
C11_MissingSupAndSyntaxIsReportedAfterEarlierChecks ==
  Done
  => /\ ReturnedAttributeTypeIsSound
     /\ (options.relaxedMode \/ ~HoldsOLcfg)
        => \A g \in {Parse} :
             (/\ g.ok /\ g.val.type = "attributeType"
              /\ PassesAttributeChecksBeforeSyntax(g.val))
             => SupOrSyntaxIsReported(g.val)

\* an attribute type without SUP and SYNTAX has been reported
W11_MissingSupAndSyntaxReported ==
  /\ Done
  /\ body = "( 2.5.4.3 NAME 'test' DESC 'd' )"
  /\ ~result.ok /\ result.type = "ATTRIBUTETYPE_ERROR"

\* the text holds a vendor OID token that begins and ends a word
HoldsDelimitedVendorToken ==
  \E i \in 1..Len(schemaDefinition) : DelimitedVendorTokenAt(schemaDefinition, i)

\* the text is of the vendor form OLcfg(Ov|Db|Gl)(At|Oc):<dotted-decimal>
IsVendorOid(t) ==
  \E p \in {FirstLit(t, 1, OpenLdapPrefixes)} :
     /\ p.ok /\ Ch(t, p.pos) = ":"
     /\ IsDottedDecimal(SubSeq(t, p.pos + 1, Len(t)))

\* the OID is of a form the mode takes: dotted-decimal, and in relaxed mode
\* the vendor form too
OidIsWellFormed(o) ==
  IsDottedDecimal(o) \/ (options.relaxedMode /\ IsVendorOid(o))

\* every returned objectClass or attributeType has a well-formed OID
ReturnedOidIsWellFormed ==
  (result.ok /\ result.data[1].type \in {"objectClass", "attributeType"})
  => OidIsWellFormed(result.data[1].oid)

MalformedOidIsReported ==
  /\ ~result.ok /\ result.type = "INVALID_OID"
  /\ Lit(result.message, 1, "Invalid OID format: ")

\* C12 (as stated): every returned objectClass or attributeType record has
\* an OID that is dotted-decimal, or in relaxed mode of the vendor form, and
\* every input whose OID the grammar accepts but that is not of these forms
\* fails with INVALID_OID.
C12_AnyMalformedOidIsReported ==
  Done
  => /\ ReturnedOidIsWellFormed
     /\ \A g \in {Parse} :
          (/\ g.ok /\ g.val.type \in {"objectClass", "attributeType"}
           /\ ~OidIsWellFormed(g.val.oid))
          => MalformedOidIsReported

\* C12 (amended): the same, the failure being that of an input which passes
\* the checks made before the OID check: its NAME is not empty, an object
\* class has a kind keyword, and in strict mode the text holds no vendor
\* OID token that begins and ends a word.
C12_MalformedOidIsReportedAfterEarlierChecks ==
  Done
  => /\ ReturnedOidIsWellFormed
     /\ (options.relaxedMode \/ ~HoldsDelimitedVendorToken)
        => \A g \in {Parse} :
             (/\ g.ok /\ g.val.type \in {"objectClass", "attributeType"}
              /\ ~OidIsWellFormed(g.val.oid)
              /\ g.val.name # ""
              /\ g.val.type = "objectClass" => g.val.objectClassType # <<>>)
             => MalformedOidIsReported

\* an object class with a kind and an OID that ends with a dot has been
\* reported
W12_TrailingDotOidReported ==
  /\ Done
  /\ body = "( 2.5.6. NAME 'test' SUP top STRUCTURAL )"
  /\ MalformedOidIsReported

\* a SUP of the object class record oc is a reserved keyword, compared
\* without case, or is not a name
HasInvalidSup(oc) ==
  /\ oc.sup # <<>>
  /\ \E n \in 1..Len(oc.sup[1].items) :
       \/ toUpperCase(oc.sup[1].items[n]) \in ObjectClassReservedKeywords
       \/ ~attributeNamePattern(oc.sup[1].items[n])

\* C13: parseSchema of an object class whose SUP is a reserved keyword,
\* compared without case, or does not match the name pattern, fails with
\* INVALID_FIELD and a message containing "Invalid SUP".  (Stated for an
\* object class that passes the checks made before the SUP check: NAME not
\* empty, a kind keyword, a well-formed OID, in strict mode no vendor OID.)
C13_InvalidSupIsReported ==
  (Done /\ (options.relaxedMode \/ ~HoldsOLcfg))
  => \A g \in {Parse} :
       (/\ g.ok /\ g.val.type = "objectClass"
        /\ PassesEarlierChecks(g.val)
        /\ HasInvalidSup(g.val))
       => /\ ~result.ok /\ result.type = "INVALID_FIELD"
          /\ Contains(result.message, "Invalid SUP")

\* the keywords of the grammar's fields
GrammarKeywords ==
  {"STRUCTURAL", "AUXILIARY", "ABSTRACT", "MUST", "MAY", "DESC", "NAME", "SUP",
   "SYNTAX", "EQUALITY", "ORDERING", "SUBSTR", "SINGLE-VALUE", "COLLECTIVE",
   "NO-USER-MODIFICATION", "USAGE"}

\* a letter followed by letters, digits, "_" or "-", and not a keyword
IsPlainName(t) ==
  /\ Len(t) > 0
  /\ Ch(t, 1) \in Letter
  /\ \A i \in 2..Len(t) : Ch(t, i) \in Letter \cup Digit \cup {"_", "-"}
  /\ t \notin GrammarKeywords

\* the names a returned record refers to: the SUP of an attribute type, the
\* SUP, MUST and MAY of an object class
ReferredNames(record) ==
  IF record.type = "attributeType"
  THEN {record.sup[n] : n \in 1..Len(record.sup)}
  ELSE IF record.type = "objectClass"
  THEN UNION {
         {record.sup[k].items[n] : n \in 1..Len(record.sup[k].items)} :
             k \in 1..Len(record.sup)}
       \cup UNION {{record.must[k][n] : n \in 1..Len(record.must[k])} :
                      k \in 1..Len(record.must)}
       \cup UNION {{record.may[k][n] : n \in 1..Len(record.may[k])} :
                      k \in 1..Len(record.may)}
  ELSE {}

\* C14: in every record returned by parseSchema, every SUP value and every
\* attribute name of must and may matches [A-Za-z][A-Za-z0-9_-]* and is not
\* one of the grammar's keywords.
C14_ReturnedNamesAreNotKeywords ==
  (Done /\ result.ok)
  => \A t \in ReferredNames(result.data[1]) : IsPlainName(t)

\* the text consists of white space only, or is empty
IsBlank(t) == \A i \in 1..Len(t) : Ch(t, i) \in JsWs

\* the definition is empty or white space only, or is so once its leading
\* ordinal marker is removed
IsEmptyDefinition ==
  IsBlank(body) /\ (IsBlank(prefix) \/ IsMarker(prefix))

EmptyInputIsReported ==
  /\ ~result.ok /\ result.type = "EMPTY_INPUT"
  /\ result.message = "Schema definition cannot be empty"
  /\ ~result.grammarInvoked
  /\ result.schemaDefinition = schemaDefinition

\* C15: parseSchema of an input that is empty or white space only, or that
\* is so once a leading ordinal marker is removed, fails with EMPTY_INPUT in
\* strict and in relaxed mode, before the grammar and every other check, and
\* the error carries the input as it was given; no other input fails with
\* EMPTY_INPUT.
C15_EmptyInputIsReported ==
  Done
  => /\ IsEmptyDefinition => EmptyInputIsReported
     /\ result.type = "EMPTY_INPUT" => IsEmptyDefinition

\* a marker between white space followed by white space only has been
\* reported as an empty input
W15_MarkerOnlyReported ==
  /\ Done
  /\ prefix = " {00123} " /\ body = "\t\n "
  /\ EmptyInputIsReported

\* the kind and the beginning of the message of the first violated check
\* of an attribute type record at, in the order OID format -> SUP reserved
\* keyword -> presence of SUP or SYNTAX -> strict-mode SYNTAX format;
\* <<"", "">> when no check is violated
FirstViolatedAttributeCheck(at) ==
  IF ~OidIsWellFormed(at.oid)
  THEN <<"INVALID_OID", "Invalid OID format: ">>
  ELSE IF /\ at.sup # <<>>
          /\ toUpperCase(at.sup[1]) \in AttributeTypeReservedKeywords
  THEN <<"INVALID_FIELD", "Invalid SUP value: ">>
  ELSE IF at.sup = <<>> /\ at.syntax = <<>>
  THEN <<"ATTRIBUTETYPE_ERROR", "AttributeType must have either SUP">>
  ELSE IF ~options.relaxedMode /\ at.syntax # <<>> /\ ~NumericSyntax(at)
  THEN <<"INVALID_FIELD", "Invalid SYNTAX OID format: ">>
  ELSE <<"", "">>

GrammarFailed(g) == result.grammarInvoked /\ ~g.ok

\* the error wraps the engine's error: that is its cause, its message is
\* kept, and its kind is SYNTAX_ERROR with a position when the engine's
\* error has a location, UNKNOWN_ERROR without a position when it has none
WrapsEngineError ==
  /\ ~result.ok
  /\ Len(result.cause) = 1
  /\ result.message = result.cause[1].message
  /\ IF result.cause[1].location # <<>>
     THEN result.type = "SYNTAX_ERROR" /\ result.position # <<>>
     ELSE result.type = "UNKNOWN_ERROR" /\ result.position = <<>>

\* C17: every call of parseSchema either returns one complete record (the
\* one the grammar made) or throws one error, never both; a failure of the
\* grammar engine is thrown again as SYNTAX_ERROR when it has a location and
\* as UNKNOWN_ERROR when not, with the engine's error as cause and its
\* message kept; the errors of the validator are thrown as they are; the
\* kind is never GRAMMAR_ERROR or GRAMMAR_LOAD_ERROR.
C17_OneRecordOrOneError ==
  Done
  => \A g \in {Parse} :
       /\ result.ok
          => /\ result.data = <<g.val>>
             /\ result.type = "" /\ result.cause = <<>>
       /\ ~result.ok
          => /\ result.data = <<>>
             /\ result.type \in RFC4512ErrorType
                                  \ {"GRAMMAR_ERROR", "GRAMMAR_LOAD_ERROR"}
       /\ GrammarFailed(g)
          => WrapsEngineError /\ result.type = "SYNTAX_ERROR"
       /\ result.cause # <<>> => GrammarFailed(g)
       /\ (~result.ok /\ ~GrammarFailed(g))
          => result = tryParseSchema(schemaDefinition, options)

\* a definition without its closing parenthesis has been reported as a
\* syntax error that wraps the engine's error
W17_EngineErrorWrapped ==
  /\ Done
  /\ body = "( 2.5.6.6 NAME 'test' STRUCTURAL"
  /\ result.type = "SYNTAX_ERROR"
  /\ WrapsEngineError

\* C18: every error thrown by parseSchema, of any kind, carries as
\* schemaDefinition the text the caller gave, with its ordinal prefix and
\* the white space around it, not the text given to the grammar.
C18_ErrorCarriesOriginalInput ==
  (Done /\ ~result.ok)
  => result.schemaDefinition = prefix \o body

\* a definition after a marker between white space, and without its
\* closing parenthesis, has been reported with the text as it was given
W18_SyntaxErrorCarriesPrefix ==
  /\ Done
  /\ prefix = " {00123} "
  /\ result.type = "SYNTAX_ERROR"
  /\ result.schemaDefinition = prefix \o body
  /\ result.schemaDefinition # CleanInput

\* the kinds of the errors that are not failures of the grammar
KindsWithoutPosition ==
  {"EMPTY_INPUT", "MISSING_FIELD", "OBJECTCLASS_ERROR", "INVALID_OID",
   "INVALID_FIELD", "VALIDATION_ERROR", "INVALID_NAME", "ATTRIBUTETYPE_ERROR",
   "UNKNOWN_ERROR"}

\* C19: an error thrown by parseSchema carries a position only when it is a
\* failure of the grammar: every error with a position has the kind
\* SYNTAX_ERROR and a cause, and was thrown for a text the grammar did not
\* match; no error of another kind carries a position.
C19_PositionOnlyOnGrammarFailure ==
  (Done /\ ~result.ok)
  => /\ result.position # <<>>
        => /\ result.type = "SYNTAX_ERROR"
           /\ result.cause # <<>>
           /\ GrammarFailed(Parse)
     /\ result.type \in KindsWithoutPosition => result.position = <<>>

\* in relaxed mode a definition that does not begin with a parenthesis has
\* been reported with a position and a cause
W19_GrammarFailureHasPosition ==
  /\ Done /\ options.relaxedMode
  /\ body = "OLcfgOvAt:1. NAME 'test' )"
  /\ result.type = "SYNTAX_ERROR"
  /\ result.position # <<>> /\ result.cause # <<>>

\* parseMultipleSchemas has returned or thrown
DoneMapped == stage = "mapped"

\* C20: parseMultipleSchemas(schemas) returns, when parseSchema succeeds on
\* every element, an array of the same length whose i-th element is the
\* record of parseSchema(schemas[i]); when an element fails, it throws the
\* error of the failing element of the lowest index, returns no record, and
\* makes no call of parseSchema for the elements after it.
C20_FirstFailureAbortsTheBatch ==
  DoneMapped
  => \A each \in {[i \in 1..Len(schemas) |-> parseSchema(schemas[i], options)]} :
       \A failing \in {{i \in 1..Len(schemas) : ~each[i].ok}} :
         IF failing = {}
         THEN /\ batch.ok /\ batch.thrown = <<>>
              /\ Len(batch.data) = Len(schemas)
              /\ \A i \in 1..Len(schemas) : batch.data[i] = each[i].data[1]
              /\ batch.calls = Len(schemas)
         ELSE \A first \in {i \in failing : \A j \in failing : i <= j} :
                /\ ~batch.ok /\ batch.data = <<>>
                /\ batch.thrown = <<each[first]>>
                /\ batch.calls = first

\* of three definitions the second and the third fail, and the error is
\* that of the second
W20_SecondOfThreeFails ==
  /\ DoneMapped
  /\ schemas = <<"{1}( 2.5.4.3 NAME 'cn' SUP name )",
                 "( 2.5.6.7 NAME 'noKind' MUST cn )",
                 "( 2.5.4. NAME 'bad' SUP name )">>
  /\ ~batch.ok
  /\ batch.thrown[1].type = "OBJECTCLASS_ERROR"
  /\ batch.calls = 2

\* three definitions have been parsed into three records in their order
W20_ThreeParsed ==
  /\ DoneMapped
  /\ Len(schemas) = 3 /\ batch.ok
  /\ batch.data[1].type = "objectClass" /\ batch.data[2].type = "attributeType"
  /\ batch.data[3].oid = "OLcfgOvAt:1.1"

(***************************************************************************)
(* C21.  isValidSchema, extractOID and extractName never raise and agree   *)
(* with parseSchema.                                                       *)
(***************************************************************************)

\* isValidSchema, extractOID or extractName has been called
Helped == helped # NotHelped

\* C21: for every input and configuration, what isValidSchema, extractOID
\* and extractName return is a value and never an error: isValidSchema
\* returns true exactly when parseSchema of the same input succeeds,
\* extractOID and extractName return the oid and the name of the record
\* parseSchema returns, and null when parseSchema fails, whatever the kind
\* of its error.
C21_HelpersAgreeWithParseSchema ==
  Helped =>
    \A r \in {parseSchema(helped.input, options)} :
      /\ helped.op = "isValidSchema" => helped.value = <<r.ok>>
      /\ helped.op = "extractOID" =>
           helped.value = IF r.ok THEN <<r.data[1].oid>> ELSE <<>>
      /\ helped.op = "extractName" =>
           helped.value = IF r.ok THEN <<r.data[1].name>> ELSE <<>>

\* extractName of a definition whose OID is malformed has returned null
W21_NullOnInvalidOid ==
  /\ helped.op = "extractName"
  /\ helped.input = "( 2.5.4. NAME 'bad' SUP name )"
  /\ parseSchema(helped.input, options).type = "INVALID_OID"
  /\ helped.value = <<>>

\* extractName of a prefixed definition has returned its first name
W21_NameOfPrefixedDefinition ==
  /\ helped.op = "extractName"
  /\ helped.input = "{7} ( 2.5.4.3 NAME ( 'cn' 'commonName' ) SUP name )"
  /\ helped.value = <<"cn">>

(***************************************************************************)
(* C22.  The calls leave the parser as the constructor made it.            *)
(***************************************************************************)

\* the caller has read the options and changed the object the getter
\* returned
ReadOptionsChanged == view # <<>> /\ view[1].value # construct(given)

\* C22: after every sequence of calls of parseSchema, parseMultipleSchemas,
\* isValidSchema, extractOID and extractName, succeeding or failing, and of
\* reads of the options, the caller changing the object read or not, the
\* options of the parser are those the constructor took from its argument,
\* relaxedMode being false when the argument does not give it, and what
\* parseSchema has returned or thrown is what a parser just constructed
\* from the same argument returns or throws for the same text.
C22_CallsLeaveTheParserUnchanged ==
  /\ options = construct(given)
  /\ (given = <<>> \/ given[1].relaxedMode = <<>>) => ~options.relaxedMode
  /\ given # <<>> /\ given[1].relaxedMode # <<>> =>
       options.relaxedMode = given[1].relaxedMode[1]
  /\ stage = "done" =>
       result = parseSchema(schemaDefinition, construct(given))

\* a parser constructed without argument has been used, the caller has set
\* relaxedMode on the object the getter returned, and parseSchema still
\* rejects the vendor OID as in strict mode
W22_StrictAfterChangedRead ==
  /\ given = <<>>
  /\ ReadOptionsChanged
  /\ view[1].value.relaxedMode
  /\ Helped
  /\ stage = "done"
  /\ schemaDefinition = "( OLcfgOvAt:1.1 NAME 'v' SYNTAX 1.3.6.1 )"
  /\ ~result.ok
  /\ parseSchema(schemaDefinition, view[1].value).ok

(***************************************************************************)
(* C23.  The fields of an object class in any order.                       *)
(***************************************************************************)

\* the tag of a field of the menu of object class fields
TagOf(f) ==
  CASE f = " DESC 'd'"                       -> "desc"
    [] f = " SUP top"                        -> "sup"
    [] f \in {" STRUCTURAL", " AUXILIARY"}    -> "kind"
    [] f = " MUST cn"                        -> "must"
    [] f = " MAY ( sn $ cn )"                -> "may"

\* the sequences of at most n fields of F in which no tag occurs twice
RECURSIVE FieldLists(_, _)
FieldLists(F, n) ==
  IF n = 0 THEN {<<>>}
  ELSE With(FieldLists(F, n - 1), LAMBDA shorter :
       shorter \cup {Append(l, f) : l \in {x \in shorter : Len(x) = n - 1},
                                    f \in F}) 

\* no tag occurs twice in l
TagsOccurOnce(l) ==
  \A m, n \in 1..Len(l) : m # n => TagOf(l[m]) # TagOf(l[n])

\* the text of the fields l, one after the other
RECURSIVE TextOf(_)
TextOf(l) == IF l = <<>> THEN "" ELSE l[1] \o TextOf(Tail(l))

\* the object class with the fields l after OID and NAME
ClassWith(l) == "( 2.5.6.6 NAME 'test'" \o TextOf(l) \o " )"

\* the orderings of the fields l
OrderingsOf(l) ==
  {m \in FieldLists({l[n] : n \in 1..Len(l)}, Len(l)) :
     Len(m) = Len(l) /\ {m[n] : n \in 1..Len(m)} = {l[n] : n \in 1..Len(l)}}

\* the lists of fields, each tag at most once, of which the definition
\* parsed is made
FieldsParsed ==
  {l \in {written} : TagsOccurOnce(l) /\ schemaDefinition = ClassWith(l)}

\* the kind keyword is among the fields l
HasKind(l) == \E n \in 1..Len(l) : TagOf(l[n]) = "kind"

\* the fields l as a set
FieldSet(l) == {l[n] : n \in 1..Len(l)}

\* MUST and MAY of the fields l share the attribute cn
SharesCn(l) == " MUST cn" \in FieldSet(l) /\ " MAY ( sn $ cn )" \in FieldSet(l)

\* the record of the object class with the fields l: each field under its
\* tag, the absent fields null
RecordOf(l) ==
  [type |-> "objectClass", oid |-> "2.5.6.6", name |-> "test",
   desc |-> IF " DESC 'd'" \in FieldSet(l) THEN <<"d">> ELSE <<>>,
   sup |-> IF " SUP top" \in FieldSet(l)
           THEN <<[isArray |-> TRUE, items |-> <<"top">>]>> ELSE <<>>,
   objectClassType |-> IF " STRUCTURAL" \in FieldSet(l) THEN <<"STRUCTURAL">>
                       ELSE IF " AUXILIARY" \in FieldSet(l) THEN <<"AUXILIARY">>
                       ELSE <<>>,
   must |-> IF " MUST cn" \in FieldSet(l) THEN <<<<"cn">>>> ELSE <<>>,
   may |-> IF " MAY ( sn $ cn )" \in FieldSet(l) THEN <<<<"sn", "cn">>>> ELSE <<>>,
   extensions |-> <<>>]

PlaceOf(f) ==
  CASE f = " DESC 'd'"                 -> 1
    [] f = " SUP name"                 -> 2
    [] f = " EQUALITY caseIgnoreMatch" -> 3
    [] f = " SYNTAX 1.3.6.1"           -> 6
    [] f = " SINGLE-VALUE"             -> 7
    [] f = " USAGE userApplications"   -> 10
    [] f = " X-ORIGIN 'RFC 4519'"      -> 11

\* the fields l follow the declared order, no field but an X-* pair twice
InDeclaredOrder(l) ==
  \A n \in 1..Len(l) - 1 :
    \/ PlaceOf(l[n]) < PlaceOf(l[n + 1])
    \/ PlaceOf(l[n]) = 11 /\ PlaceOf(l[n + 1]) = 11

\* the attribute type with the NAME field n and the fields l after it
TypeWith(n, l) == "( 2.5.4.3" \o n \o TextOf(l) \o " )"

\* the lists of fields of which the definition parsed is made
TypeFieldsParsed ==
  {l \in {written} :
     \E n \in Names("typeOrder") : schemaDefinition = TypeWith(n, l)}

\* C24: an attribute type whose fields after OID and NAME do not follow
\* the declared order DESC, SUP, EQUALITY, ORDERING, SUBSTR, SYNTAX,
\* SINGLE-VALUE, COLLECTIVE, NO-USER-MODIFICATION, USAGE, X-* pairs (a
\* field before an earlier one, or a field other than an X-* pair twice) is
\* never accepted: the grammar gives no attributeType record for it and
\* parseSchema fails.
C24_OutOfOrderAttributeTypeIsRejected ==
  Done /\ family = "typeOrder" =>
    \A l \in TypeFieldsParsed :
      ~InDeclaredOrder(l) =>
        /\ ~result.ok
        /\ result.data = <<>>
        /\ \A g \in {Parse} : g.ok => g.val.type # "attributeType"

\* DESC after SUP: the grammar reads an object class, which has no kind
W24_DescAfterSupFails ==
  /\ Done
  /\ schemaDefinition = "( 2.5.4.3 NAME 'test' SUP name DESC 'd' )"
  /\ Parse.ok
  /\ Parse.val.type = "objectClass"
  /\ result.type = "OBJECTCLASS_ERROR"

\* SYNTAX before EQUALITY: no definition of the grammar matches
W24_SyntaxBeforeEqualityFails ==
  /\ Done
  /\ schemaDefinition = "( 2.5.4.3 NAME 'test' SYNTAX 1.3.6.1 EQUALITY caseIgnoreMatch )"
  /\ result.type = "SYNTAX_ERROR"

(***************************************************************************)
(* C25.  Of a list of names the first one only.                            *)
(***************************************************************************)

\* the first string of a NAME field of the menu
FirstNameOf(n) ==
  CASE n = " NAME 'test'"                 -> "test"
    [] n = " NAME ( 'test' 'alias' )"     -> "test"
    [] n = " NAME ( 'cn' 'test' 'alias' )" -> "cn"

\* the NAME field made of the single quoted string a
SingleName(a) == " NAME '" \o a \o "'"

\* C25: when NAME is a parenthesized list of quoted strings, the name of
\* the record returned, and the value of extractName, is the first string
\* of the list, and the record is the one returned for the definition whose
\* NAME is that first string alone, so that the other strings of the list
\* are nowhere in it; when NAME is a single quoted string the name is that
\* string.  A definition that fails fails as it does with the first string
\* alone.
C25_FirstNameOnly ==
  Done /\ family = "typeOrder" =>
    \A n \in Names("typeOrder") :
      \A l \in {written} :
        schemaDefinition = TypeWith(n, l) =>
          \A r \in {parseSchema(TypeWith(SingleName(FirstNameOf(n)), l), options)} :
            /\ result.ok = r.ok
            /\ result.type = r.type
            /\ result.data = r.data
            /\ result.ok =>
                 /\ result.data[1].name = FirstNameOf(n)
                 /\ extractName(schemaDefinition, options) = <<FirstNameOf(n)>>
            /\ ~result.ok => extractName(schemaDefinition, options) = <<>>

\* an attribute type with three names has been returned under its first
W25_FirstOfThreeNames ==
  /\ Done
  /\ schemaDefinition = "( 2.5.4.3 NAME ( 'cn' 'test' 'alias' ) DESC 'd' SUP name )"
  /\ result.ok
  /\ result.data[1].name = "cn"
  /\ result.data[1].desc = <<"d">>

(***************************************************************************)
(* C27.  One marker at most is removed, at the start of the text only.     *)
(***************************************************************************)

\* the prefixes that are not one ordinal marker: a marker after other text,
\* of no digit, of a letter, without its closing or its opening brace, and
\* a marker followed by a second one
NotOneMarker == {"x{4}", "{}", "{x}", "{0", "0}", "{3}{5}"}

\* what the preprocessor leaves of such a prefix
KeptOf(p) == IF p = "{3}{5}" THEN "{5}" ELSE p

\* C27: the preprocessor removes one ordinal marker at most, and only one
\* that matches \s*\{[0-9]+\}\s* at the start of the input: a marker after
\* other text, a marker without digits or with a letter, a marker lacking a
\* brace and the second of two markers reach the grammar as they are, so
\* that parseSchema fails with SYNTAX_ERROR and isValidSchema returns
\* false.
C27_OnlyOneLeadingMarkerIsRemoved ==
  Done /\ prefix \in NotOneMarker =>
    /\ CleanInput = Trim(KeptOf(prefix) \o body)
    /\ ~result.ok
    /\ result.type = "SYNTAX_ERROR"
    /\ ~isValidSchema(schemaDefinition, options)

\* the second of two markers has reached the grammar before a definition
\* that parses without it
W27_SecondMarkerKept ==
  /\ Done
  /\ prefix = "{3}{5}"
  /\ CleanInput = "{5}" \o body
  /\ parseSchema(body, options).ok
  /\ result.type = "SYNTAX_ERROR"

(***************************************************************************)
(* C28.  OID, NAME, DESC and SUP only: an attribute type.                  *)
(***************************************************************************)

\* the SUP fields of the menu whose value is a single word
WordSups == {" SUP top", " SUP syntax", " SUP Usage"}

\* the lists of fields made of an optional DESC followed by an optional SUP
\* of a single word
DescThenSup ==
  {<<>>, <<" DESC 'd'">>}
  \cup {<<u>> : u \in WordSups}
  \cup {<<" DESC 'd'", u>> : u \in WordSups}

\* the definition of the family with the OID o and the fields l
PlainWith(o, l) == o \o " NAME 'test'" \o TextOf(l) \o " )"

\* the fields l hold a SUP
HasSup(l) == \E n \in 1..Len(l) : l[n] \in WordSups

\* the fields l hold a SUP whose word is a reserved keyword of attribute
\* types in some case
HasReservedSup(l) ==
  \E n \in 1..Len(l) : l[n] \in {" SUP syntax", " SUP Usage"}

SyntaxErrorRaised ==
  stage \in {"done", "rendered"} /\ ~result.ok /\ result.type = "SYNTAX_ERROR"

\* the error carries a position with line >= 1, column >= 1 and offset >= 0
PositionIsSound ==
  /\ result.position # <<>>
  /\ result.position[1].line >= 1
  /\ result.position[1].column >= 1
  /\ result.position[1].offset >= 0

\* 'at line <line>, column <column>' for the position of the error
AtLineText ==
  "at line " \o numberText(result.position[1].line)
  \o ", column " \o numberText(result.position[1].column)

\* C26 (as stated): every error of kind SYNTAX_ERROR raised by parseSchema
\* carries a position with line >= 1, column >= 1 and offset >= 0, and its
\* detailed message contains 'at line <line>, column <column>'.
C26_EverySyntaxErrorHasAPosition ==
  SyntaxErrorRaised
  => /\ PositionIsSound
     /\ rendered # <<>> => Contains(rendered[1], AtLineText)

\* C26 (amended): every error of kind SYNTAX_ERROR that parseSchema raises
\* for a text the grammar rejects carries a position with line >= 1,
\* column >= 1 and offset >= 0, and its detailed message contains
\* 'at line <line>, column <column>'; the SYNTAX_ERROR raised in strict mode
\* for an OpenLDAP configuration OID, before the grammar is called, carries
\* no position and its detailed message has no 'at line'.
C26_GrammarSyntaxErrorHasAPosition ==
  SyntaxErrorRaised
  => IF result.grammarInvoked
     THEN /\ PositionIsSound
          /\ rendered # <<>> => Contains(rendered[1], AtLineText)
     ELSE /\ result.position = <<>>
          /\ rendered # <<>> => ~Contains(rendered[1], " at line ")

\* the detailed message of a SYNTAX_ERROR of the grammar has been rendered
W26_RenderedGrammarSyntaxError ==
  /\ SyntaxErrorRaised /\ result.grammarInvoked /\ rendered # <<>>
  /\ result.position[1].column > 1
  /\ Contains(rendered[1], AtLineText)

\* the detailed message of the strict-mode SYNTAX_ERROR has been rendered
W26_RenderedVendorSyntaxError ==
  /\ SyntaxErrorRaised /\ ~result.grammarInvoked /\ rendered # <<>>
  /\ result.position = <<>>

(***************************************************************************)
(* C29: the position is measured in the preprocessed text                  *)
(***************************************************************************)
\* parseSchema has thrown the SYNTAX_ERROR of a text the grammar rejects
GrammarFailure ==
  Done /\ ~result.ok /\ result.type = "SYNTAX_ERROR" /\ result.grammarInvoked

\* the total length of the ordinal prefix and the white space before and
\* after it at the start of s; of the leading white space when s has no
\* ordinal prefix
LeadLength(s) ==
  With(SkipWhile(s, 1, JsWs), LAMBDA a :
  With(SkipWhile(s, a + 1, Digit), LAMBDA d :
  (IF Ch(s, a) = "{" /\ d > a + 1 /\ Ch(s, d) = "}"
   THEN SkipWhile(s, d + 1, JsWs) ELSE a) - 1))

\* the number of line breaks of s before position p
BreaksBefore(s, p) == Cardinality({n \in 1..p - 1 : Ch(s, n) = "\n"})

\* the position p of s counted from the start of its line, from 1
ColumnIn(s, p) ==
  p - (IF BreaksBefore(s, p) = 0 THEN 0
       ELSE CHOOSE n \in 1..p - 1 :
              Ch(s, n) = "\n" /\ \A m \in n + 1..p - 1 : Ch(s, m) # "\n")

\* C29: for a grammar syntax failure the reported position (line, column,
\* offset) is measured in the preprocessed text (ordinal prefix removed,
\* leading and trailing white space trimmed), while the error's
\* schemaDefinition is the original input: the preprocessed text stands in
\* the input after the k characters of the ordinal prefix and the leading
\* white space, so the failure point has the index offset + k in
\* schemaDefinition, and the index offset when k = 0.
C29_PositionIsMeasuredInThePreprocessedText ==
  GrammarFailure =>
    \A k \in {LeadLength(schemaDefinition)} : \A g \in {Parse} :
      /\ result.schemaDefinition = schemaDefinition
      /\ SubSeq(schemaDefinition, k + 1, k + Len(CleanInput)) = CleanInput
      /\ \A n \in k + Len(CleanInput) + 1..Len(schemaDefinition) :
            Ch(schemaDefinition, n) \in JsWs
      /\ ~g.ok
      /\ result.position[1].offset = g.far - 1
      /\ result.position[1].offset \in 0..Len(CleanInput)
      /\ result.position[1].line = 1 + BreaksBefore(CleanInput, g.far)
      /\ result.position[1].column = ColumnIn(CleanInput, g.far)
      /\ k = 0
           => /\ result.position[1].line
                  = 1 + BreaksBefore(schemaDefinition, g.far)
              /\ result.position[1].column = ColumnIn(schemaDefinition, g.far)

\* a failure after a prefix and white space with a line break: the position
\* is on line 1 of the preprocessed text, and the failure point is on a
\* later line of the input, k characters further
W29_PositionAfterLeadWithLineBreak ==
  /\ GrammarFailure
  /\ LeadLength(schemaDefinition) > 0
  /\ result.position[1].offset > 0
  /\ result.position[1].line = 1
  /\ BreaksBefore(schemaDefinition,
                  result.position[1].offset + LeadLength(schemaDefinition) + 1) > 0

\* a failure in an input without prefix and leading white space
W29_PositionWithoutLead ==
  /\ GrammarFailure
  /\ LeadLength(schemaDefinition) = 0
  /\ result.position[1].offset > 0

(***************************************************************************)
(* C30: the detailed message                                               *)
(***************************************************************************)
\* getDetailedMessage has been called on the error parseSchema has thrown
Rendered == stage = "rendered"

\* '<kind>: <message>'
HeadText == result.type \o ": " \o result.message

\* ' at line L, column C' when the error has a position
PositionText ==
  IF result.position = <<>> THEN ""
  ELSE " at line " \o numberText(result.position[1].line)
       \o ", column " \o numberText(result.position[1].column)

\* the 'Context:' line when the error has a context
ContextText ==
  IF result.context = <<>> THEN "" ELSE "\nContext: " \o result.context[1]

\* the whole input when it has at most 100 characters, otherwise its first
\* 100 characters followed by '...'
PreviewText ==
  IF Len(result.schemaDefinition) <= 100 THEN result.schemaDefinition
  ELSE SubSeq(result.schemaDefinition, 1, 100) \o "..."

\* what may follow the 'Schema:' line: nothing, or the line of the cause
CauseTexts ==
  {""} \cup {"\nCaused by: " \o c.message : c \in {result.cause[n] : n \in DOMAIN result.cause}}

\* the first position of sub in s, 0 when s does not contain it
IndexOf(s, sub) ==
  IF Contains(s, sub)
  THEN CHOOSE i \in 1..Len(s) : Lit(s, i, sub) /\ \A j \in 1..i - 1 : ~Lit(s, j, sub)
  ELSE 0

\* the preview of the message m: the text after 'Schema: ' up to the line of
\* the cause or the end of the message
PreviewOf(m) ==
  With(IndexOf(m, "\nSchema: "), LAMBDA i :
  With(IndexOf(m, "\nCaused by: "), LAMBDA c :
  IF i = 0 THEN ""
  ELSE SubSeq(m, i + 9, IF c > i THEN c - 1 ELSE Len(m))))

\* what the claim says of position and context: the message starts with
\* '<kind>: <message>', followed by ' at line L, column C' exactly when a
\* position is present and then by a 'Context:' line exactly when a context
\* is present
HeadOfMessage(m) ==
  /\ Lit(m, 1, HeadText \o PositionText \o ContextText)
  /\ (result.position # <<>>) <=> Lit(m, Len(HeadText) + 1, " at line ")
  /\ (result.context # <<>>) <=> Contains(m, "\nContext: ")

\* C30 (as stated): getDetailedMessage renders '<kind>: <message>', followed
\* by ' at line L, column C' exactly when a position is present, by a
\* 'Context:' line exactly when a context is present, and by a 'Schema:'
\* line whose preview is the whole input when it has at most 100 characters
\* and otherwise its first 100 characters followed by '...'; the preview is
\* never longer than 103 characters.
C30_DetailedMessageHasASchemaLine ==
  Rendered =>
    \A m \in {rendered[1]} :
      /\ HeadOfMessage(m)
      /\ \E rest \in CauseTexts :
           m = HeadText \o PositionText \o ContextText
               \o "\nSchema: " \o PreviewText \o rest
      /\ Len(PreviewOf(m)) <= 103

\* C30 (amended): getDetailedMessage renders '<kind>: <message>', followed
\* by ' at line L, column C' exactly when a position is present, by a
\* 'Context:' line exactly when a context is present, and, exactly when the
\* input is not empty, by a 'Schema:' line whose preview is the whole input
\* when it has at most 100 characters and otherwise its first 100
\* characters followed by '...'; the preview is never longer than 103
\* characters.
C30_DetailedMessageOfParseSchemaError ==
  Rendered =>
    \A m \in {rendered[1]} :
      /\ HeadOfMessage(m)
      /\ (result.schemaDefinition # "") <=> Contains(m, "\nSchema: ")
      /\ \E rest \in CauseTexts :
           m = HeadText \o PositionText \o ContextText
               \o (IF result.schemaDefinition = "" THEN ""
                   ELSE "\nSchema: " \o PreviewText)
               \o rest
      /\ PreviewOf(m) = PreviewText
      /\ Len(PreviewOf(m)) <= 103

\* the message of a syntax error of a definition of 120 characters: a
\* position, no context, and a preview of 103 characters that ends in '...'
W30_PreviewOfALongDefinition ==
  /\ Rendered
  /\ Len(result.schemaDefinition) = 120
  /\ result.position # <<>> /\ result.context = <<>>
  /\ Len(PreviewOf(rendered[1])) = 103
  /\ Lit(rendered[1], IndexOf(rendered[1], "\nSchema: ") + 109, "...")

\* the message of an error with a context, of a definition of 100
\* characters: the preview is the whole definition
W30_WholeDefinitionOf100 ==
  /\ Rendered
  /\ Len(result.schemaDefinition) = 100
  /\ result.context # <<>> /\ result.position = <<>>
  /\ PreviewOf(rendered[1]) = result.schemaDefinition

\* the message of the error of the empty input has no 'Schema:' line
W30_EmptyInputHasNoSchemaLine ==
  /\ Rendered
  /\ result.schemaDefinition = ""
  /\ rendered[1] = "EMPTY_INPUT: Schema definition cannot be empty"

====
